---- MODULE Spec2Model ----
(***************************************************************************)
(* maharajah: a state-machine model of the incremental indexer             *)
(* (src/src/indexer/mod.rs), the chunker it drives                         *)
(* (src/src/indexer/parser.rs, chunker.rs) and the vector store it writes  *)
(* (src/src/db/store.rs, schema.rs), the HTTP handlers and the watcher of   *)
(* the daemon (src/src/server) and the fusion of search results            *)
(* (src/src/rag/retriever.rs).                                             *)
(*                                                                         *)
(* The source tree is a small set of files whose bytes are drawn from a    *)
(* table of sample contents.  Each sample carries what the external        *)
(* libraries return for it: whether String::from_utf8 accepts the bytes,   *)
(* the lines of the text and the tree-sitter parse tree (node kind, rows,  *)
(* the node's text, its name child and the comment marker).                 *)
(***************************************************************************)
EXTENDS Integers, Sequences, FiniteSets, Bags, TLC

VARIABLES
    fs,         \* file -> key of its bytes in the content table, or Absent
    perm,       \* file -> TRUE when std::fs::read can read it
    store,      \* the database: whether the table exists, and its ChunkRecord rows as a bag
    run,        \* runner -> the locals of its index run (see IdleRun)
    warned,     \* history: the warnings written to stderr, as a set
    edits,      \* number of filesystem modifications so far
    runs,       \* number of index runs started so far
    faults,     \* number of failed calls so far: store errors, model load, embed()
    q,          \* the POST /find or POST /query request being handled (see IdleQuery)
    w,          \* the watcher: its event channel and its consumer loop (see IdleWatcher)
    actor,      \* the embedder actor: its queue, its worker thread, its replies (see IdleActor)
    call        \* a call outside the runs: a pure function with its arguments and
                \* its result, or the `db clear` command (see NoCall, Clearing)

vars == <<fs, perm, store, run, warned, edits, runs, faults, q, w, actor, call>>

\* ---------------------------------------------------------------- bounds

MaxEdits == 1
MaxRuns == 2
MaxFaults == 1
\* config.index.max_chunk_lines as configured for the modelled runs
MaxChunkLines == 2

Files == {"/t/a.rs", "/t/b.rs"}
target_dir == "/t"

\* the callers of run / refresh: 1 alone in Spec, SpecQuery and SpecWatch
\* (the watcher's refresh), 1 and 2 side by side in SpecConcurrent
Runners == {1, 2}

Absent == "absent"
\* Option<T>: {} is None and {x} is Some(x)
None == {}
Some(x) == {x}
\* a local of a run or of a handler that has not been assigned
Unset == "unset"
\* the database before the table is created
NoTable == [exists |-> FALSE, rows |-> EmptyBag]

\* ---------------------------------------------------------------- helpers

Range(s) == {s[i] : i \in DOMAIN s}

Min(a, b) == IF a < b THEN a ELSE b

\* [&str]::join(sep)
JoinWith(ss, sep) ==
    LET F[i \in 0..Len(ss)] ==
            IF i = 0 THEN ""
            ELSE IF i = 1 THEN ss[1] ELSE F[i - 1] \o sep \o ss[i]
    IN F[Len(ss)]

\* [&str]::join("\n")
JoinLines(ss) == JoinWith(ss, "\n")

unwrap(opt) == CHOOSE x \in opt : TRUE
unwrap_or(opt, default) == IF opt = {} THEN default ELSE unwrap(opt)
or_else(opt, other) == IF opt = {} THEN other ELSE opt

\* the character of the string s at position i
char_at(s, i) == SubSeq(s, i, i)

\* str::starts_with, str::strip_prefix, str::strip_suffix
starts_with(s, prefix) == Len(prefix) <= Len(s) /\ SubSeq(s, 1, Len(prefix)) = prefix

strip_prefix_str(s, prefix) ==
    IF starts_with(s, prefix) THEN {SubSeq(s, Len(prefix) + 1, Len(s))} ELSE {}

strip_suffix(s, suffix) ==
    IF Len(suffix) <= Len(s) /\ SubSeq(s, Len(s) - Len(suffix) + 1, Len(s)) = suffix
    THEN {SubSeq(s, 1, Len(s) - Len(suffix))}
    ELSE {}

\* char::is_whitespace: the characters with the Unicode property White_Space
\* up to U+00FF, the characters a string literal of a module can hold: U+0009
\* to U+000D, the space, U+0085 and U+00A0.  Each is a string, compared as a
\* string: where a character above U+007F is read as more than one character,
\* it is still one member of White_Space
LineTabulation == ""
NextLine == ""
NoBreakSpace == " "
White_Space == {"\t", "\n", LineTabulation, "\f", "\r", " ", NextLine, NoBreakSpace}

\* str::trim_start and str::trim_end: without the white space at that end
RECURSIVE trim_start(_)
trim_start(s) ==
    IF \E ws \in White_Space : starts_with(s, ws)
    THEN trim_start(unwrap(UNION {strip_prefix_str(s, ws) : ws \in White_Space}))
    ELSE s

RECURSIVE trim_end(_)
trim_end(s) ==
    IF \E ws \in White_Space : strip_suffix(s, ws) # None
    THEN trim_end(unwrap(UNION {strip_suffix(s, ws) : ws \in White_Space}))
    ELSE s

\* str::trim
trim(s) == trim_end(trim_start(s))

\* str::lines: the text between line feeds, without the carriage return
\* before a line feed; a line feed at the very end opens no line
RECURSIVE str_lines(_)
str_lines(s) ==
    LET breaks == {i \in 1..Len(s) : char_at(s, i) = "\n"}
    IN IF s = "" THEN <<>>
       ELSE IF breaks = {} THEN <<s>>
       ELSE LET i == CHOOSE i \in breaks : \A j \in breaks : i <= j
                line == SubSeq(s, 1, i - 1)
            IN <<unwrap_or(strip_suffix(line, "\r"), line)>>
                   \o str_lines(SubSeq(s, i + 1, Len(s)))

SeqToBag(s) == [x \in Range(s) |-> Cardinality({i \in DOMAIN s : s[i] = x})]

SelectIdx(s, keep) ==
    LET F[i \in 0..Len(s)] ==
            IF i = 0 THEN <<>>
            ELSE IF i \in keep THEN Append(F[i - 1], s[i]) ELSE F[i - 1]
    IN F[Len(s)]

\* ---------------------------------------------------------------- sample contents

\* the words that are not empty, separated by one space
Words(ws) ==
    LET F[i \in 0..Len(ws)] ==
            IF i = 0 THEN ""
            ELSE IF ws[i] = "" THEN F[i - 1]
            ELSE IF F[i - 1] = "" THEN ws[i] ELSE F[i - 1] \o " " \o ws[i]
    IN F[Len(ws)]

\* the delimiter that ends a comment opened by `marker`
Closer(marker) ==
    CASE marker \in {"/*", "/**"} -> "*/"
      [] marker \in {"{-", "{-|"} -> "-}"
      [] OTHER -> ""

\* A tree-sitter node: its kind, whether it is a named node, its rows, the
\* text of its byte range (content[node.byte_range()]), the text of its first
\* identifier-like child (name), what extract_python_docstring returns for it
\* (docstring), its children, named or not, in order, and for a comment node
\* the comment marker it starts with, the text that follows the marker (body)
\* and the delimiter that ends it (closer): the comment reads
\* `marker body closer`.
TsNode(kind, sr, er, name, text, kids) ==
    [kind |-> kind, named |-> TRUE, start_row |-> sr, end_row |-> er, name |-> name,
     text |-> text, marker |-> "", body |-> "", closer |-> "", docstring |-> None,
     children |-> kids]

\* an anonymous node: a keyword or a punctuation token such as `{` or `export`
TsToken(kind, row) ==
    [kind |-> kind, named |-> FALSE, start_row |-> row, end_row |-> row, name |-> "",
     text |-> kind, marker |-> "", body |-> "", closer |-> "", docstring |-> None,
     children |-> <<>>]

\* a comment node whose byte range is `text`; `body` are the words between
\* its delimiters
TsCommentText(kind, row, marker, text, body) ==
    [kind |-> kind, named |-> TRUE, start_row |-> row,
     end_row |-> row + Len(str_lines(text)) - 1, name |-> "",
     text |-> text, marker |-> marker, body |-> body, closer |-> Closer(marker),
     docstring |-> None, children |-> <<>>]

\* a comment of one line
TsComment(kind, row, marker, body) ==
    TsCommentText(kind, row, marker, Words(<<marker, body, Closer(marker)>>), body)

\* a decoded file: its text, whether Parser::set_language accepts the grammar
\* of its language, and the tree Parser::parse returns for it
Parsed(text, root) ==
    [utf8 |-> TRUE, text |-> text, set_language |-> TRUE, tree |-> Some(root)]

\* "fn f() {\n}"
ContentOne ==
    Parsed("fn f() {\n}",
           TsNode("source_file", 0, 1, "", "fn f() {\n}",
                  <<TsNode("function_item", 0, 1, "f", "fn f() {\n}", <<>>)>>))

\* "/// D\nfn g() {\n  1;\n}": a documented declaration of three lines
ContentDoc ==
    Parsed("/// D\nfn g() {\n  1;\n}",
           TsNode("source_file", 0, 3, "", "/// D\nfn g() {\n  1;\n}",
                  <<TsComment("line_comment", 0, "///", "D"),
                    TsNode("function_item", 1, 3, "g", "fn g() {\n  1;\n}", <<>>)>>))

\* "fn a() {} fn b() {}": two declarations on one line
ContentSame ==
    Parsed("fn a() {} fn b() {}",
           TsNode("source_file", 0, 0, "", "fn a() {} fn b() {}",
                  <<TsNode("function_item", 0, 0, "a", "fn a() {}", <<>>),
                    TsNode("function_item", 0, 0, "b", "fn b() {}", <<>>)>>))

\* bytes that are not valid UTF-8
ContentBin ==
    [utf8 |-> FALSE, text |-> "", set_language |-> TRUE, tree |-> None]

\* the empty file
ContentEmpty ==
    Parsed("", TsNode("source_file", 0, 0, "", "", <<>>))

ContentKeys == {"one", "doc", "same", "bin", "empty"}
\* the tree before the first modelled event
InitTree == [f \in Files |-> "one"]
\* the bytes each file is given by the modelled writes
Writable(f) ==
    IF f = "/t/a.rs" THEN {"one", "same", "bin"} ELSE {"doc", "one", "empty"}

Content(k) ==
    CASE k = "one" -> ContentOne
      [] k = "doc" -> ContentDoc
      [] k = "same" -> ContentSame
      [] k = "bin" -> ContentBin
      [] k = "empty" -> ContentEmpty

\* ---------------------------------------------------------------- chunker

RUST_KINDS ==
    {"function_item", "impl_item", "struct_item", "enum_item", "trait_item",
     "type_item", "const_item", "static_item", "mod_item", "macro_definition",
     "union_item"}

PYTHON_KINDS == {"function_definition", "class_definition", "decorated_definition"}

JAVA_KINDS ==
    {"method_declaration", "class_declaration", "interface_declaration",
     "enum_declaration", "record_declaration", "annotation_type_declaration",
     "constructor_declaration"}

CSHARP_KINDS ==
    {"method_declaration", "class_declaration", "interface_declaration",
     "struct_declaration", "enum_declaration", "record_declaration",
     "delegate_declaration", "property_declaration", "constructor_declaration"}

SCALA_KINDS ==
    {"function_definition", "class_definition", "object_definition",
     "trait_definition", "enum_definition", "given_definition",
     "extension_definition", "type_definition"}

HASKELL_KINDS ==
    {"function", "data_type", "newtype", "class", "instance_decl", "type_synomym",
     "type_family"}

JS_KINDS ==
    {"function_declaration", "class_declaration", "method_definition",
     "arrow_function", "generator_function_declaration"}

TS_KINDS ==
    {"function_declaration", "class_declaration", "method_definition",
     "interface_declaration", "type_alias_declaration", "enum_declaration"}

GO_KINDS ==
    {"function_declaration", "method_declaration", "type_declaration",
     "const_declaration", "var_declaration"}

RUBY_KINDS == {"method", "class", "module", "singleton_method", "singleton_class"}

FSHARP_KINDS ==
    {"value_declaration", "type_defn", "module_defn", "namespace",
     "exception_definition"}

\* the position of the first and of the last "/" of s, 0 when it has none
first_separator(s) ==
    LET seps == {i \in 1..Len(s) : char_at(s, i) = "/"}
    IN IF seps = {} THEN 0 ELSE CHOOSE i \in seps : \A j \in seps : i <= j

last_separator(s) ==
    LET seps == {i \in 1..Len(s) : char_at(s, i) = "/"}
    IN IF seps = {} THEN 0 ELSE CHOOSE i \in seps : \A j \in seps : i >= j

\* Components::parse_single_component: the text between two separators is a
\* component unless it is empty or "."
is_component(comp) == comp \notin {"", "."}

\* how the path starts: with the root "/", with a current directory "."
\* (Components::include_cur_dir), or with neither
start_dir(path) ==
    IF starts_with(path, "/") THEN "/"
    ELSE IF path = "." \/ starts_with(path, "./") THEN "."
    ELSE ""

\* the path after its start
body_of(path) == SubSeq(path, Len(start_dir(path)) + 1, Len(path))

\* Components::next over the body: the components in order
RECURSIVE body_components(_)
body_components(s) ==
    IF s = "" THEN <<>>
    ELSE LET i == first_separator(s)
             comp == IF i = 0 THEN s ELSE SubSeq(s, 1, i - 1)
             rest == IF i = 0 THEN "" ELSE SubSeq(s, i + 1, Len(s))
         IN (IF is_component(comp) THEN <<comp>> ELSE <<>>) \o body_components(rest)

\* Path::components: the root or the current directory the path starts with,
\* then the names between the separators; repeated separators, "." after
\* the start and a separator at the end yield no component
components(path) ==
    (IF start_dir(path) = "" THEN <<>> ELSE <<start_dir(path)>>)
        \o body_components(body_of(path))

\* Path::file_name, Components::next_back: the last text between separators
\* that is neither empty nor ".", when it is a name and not ".."
file_name(path) ==
    LET ends == {j \in 1..Len(path) :
                    /\ char_at(path, j) # "/"
                    /\ j = Len(path) \/ char_at(path, j + 1) = "/"
                    /\ ~(char_at(path, j) = "." /\ (j = 1 \/ char_at(path, j - 1) = "/"))}
        last == CHOOSE j \in ends : \A k \in ends : j >= k
        seps == {0} \cup {i \in 1..(last - 1) : char_at(path, i) = "/"}
        name == SubSeq(path, (CHOOSE i \in seps : \A k \in seps : i >= k) + 1, last)
    IN IF ends = {} THEN None
       ELSE IF name = ".." THEN None ELSE Some(name)

\* Path::extension(..).and_then(to_str).unwrap_or(""): what follows the last
\* dot of the file name, "" when the name has no dot after its first character
Extension(path) ==
    IF file_name(path) = None THEN ""
    ELSE LET name == unwrap(file_name(path))
             dots == {i \in 2..Len(name) : char_at(name, i) = "."}
         IN IF dots = {} THEN ""
            ELSE SubSeq(name, (CHOOSE i \in dots : \A j \in dots : i >= j) + 1, Len(name))

Chunk(language, symbol, content, start_line, end_line, node_kind, summary) ==
    [language |-> language, symbol |-> symbol, content |-> content,
     start_line |-> start_line, end_line |-> end_line,
     node_kind |-> node_kind, summary |-> summary]

\* the Chunk that chunker.rs builds: it sets neither node_kind nor summary
Window(language, symbol, content, start_line, end_line) ==
    [language |-> language, symbol |-> symbol, content |-> content,
     start_line |-> start_line, end_line |-> end_line]

\* The while loop of split_by_lines from `offset` on; `lines` is content.lines().
RECURSIVE split_loop(_, _, _, _, _, _)
split_loop(lines, offset, symbol, language, start_offset, max_lines) ==
    IF offset < Len(lines)
    THEN LET end == Min(offset + max_lines, Len(lines))
             chunk_lines == SubSeq(lines, offset + 1, end)
             chunk_content == JoinLines(chunk_lines)
             start_line == start_offset + offset
             end_line == start_offset + end - 1
         IN <<Window(language, symbol, chunk_content, start_line, end_line)>>
            \o split_loop(lines, offset + max_lines, symbol, language,
                          start_offset, max_lines)
    ELSE <<>>

\* `if lines.is_empty() { return vec![] }`, then the loop
split_lines(lines, symbol, language, start_offset, max_lines) ==
    IF lines = <<>>
    THEN <<>>
    ELSE split_loop(lines, 0, symbol, language, start_offset, max_lines)

\* chunker::split_by_lines, which has five parameters
split_by_lines(content, symbol, language, start_offset, max_lines) ==
    split_lines(str_lines(content), symbol, language, start_offset, max_lines)

\* chunk.summary as index_files reads it; the chunks that split_by_lines
\* builds have none
chunk_summary(chunk) == IF "summary" \in DOMAIN chunk THEN chunk.summary ELSE None

prune_kinds_for(lang) == IF lang = "haskell" THEN {"signature"} ELSE {}

is_summary_kind(lang, kind) ==
    CASE lang = "rust" ->
            kind \in {"function_item", "impl_item", "trait_item", "struct_item", "enum_item"}
      [] lang = "python" ->
            kind \in {"function_definition", "class_definition", "decorated_definition"}
      [] lang = "javascript" ->
            kind \in {"function_declaration", "class_declaration", "method_definition",
                      "arrow_function", "generator_function_declaration"}
      [] lang \in {"typescript", "tsx"} ->
            kind \in {"function_declaration", "class_declaration", "method_definition",
                      "interface_declaration"}
      [] lang = "java" ->
            kind \in {"method_declaration", "class_declaration", "interface_declaration",
                      "constructor_declaration"}
      [] lang = "csharp" ->
            kind \in {"method_declaration", "class_declaration", "interface_declaration",
                      "constructor_declaration", "property_declaration"}
      [] lang = "go" -> kind \in {"function_declaration", "method_declaration"}
      [] lang = "scala" ->
            kind \in {"function_definition", "class_definition", "trait_definition",
                      "given_definition", "extension_definition"}
      [] lang = "haskell" -> kind \in {"function", "class", "instance_decl"}
      [] lang = "ruby" ->
            kind \in {"method", "class", "module", "singleton_method", "singleton_class"}
      [] lang = "fsharp" -> kind \in {"value_declaration", "type_defn"}
      [] OTHER -> FALSE

comment_kinds_for(lang) ==
    CASE lang = "rust" -> {"line_comment", "block_comment"}
      [] lang = "python" -> {"comment"}
      [] lang = "java" -> {"block_comment", "line_comment"}
      [] lang = "csharp" -> {"comment", "block_comment"}
      [] lang \in {"javascript", "typescript", "tsx"} -> {"comment"}
      [] lang = "go" -> {"comment"}
      [] lang = "scala" -> {"comment", "block_comment"}
      [] lang = "haskell" -> {"comment", "block_comment", "haddock"}
      [] lang = "ruby" -> {"comment"}
      [] lang = "fsharp" -> {"block_comment", "line_comment"}
      [] OTHER -> {}

\* content[node.byte_range()]
node_text(node) == node.text

is_doc_comment(raw, lang, kind) ==
    LET trimmed == trim(raw)
    IN CASE lang = "rust" -> starts_with(trimmed, "///") \/ starts_with(trimmed, "/**")
         [] lang \in {"csharp", "fsharp"} ->
               starts_with(trimmed, "///") \/ starts_with(trimmed, "/**")
         [] lang = "java" -> starts_with(trimmed, "/**")
         [] lang \in {"javascript", "typescript", "tsx"} -> starts_with(trimmed, "/**")
         [] lang = "scala" -> starts_with(trimmed, "/**")
         [] lang = "haskell" -> kind = "haddock" \/ starts_with(trimmed, "{-|")
         [] OTHER -> TRUE

\* the characters of `line` from position i on that are outside <...>
RECURSIVE outside_tags(_, _, _)
outside_tags(line, i, in_tag) ==
    IF i > Len(line) THEN ""
    ELSE LET ch == char_at(line, i)
         IN IF ch = "<" THEN outside_tags(line, i + 1, TRUE)
            ELSE IF ch = ">" THEN outside_tags(line, i + 1, FALSE)
            ELSE IF ~in_tag THEN ch \o outside_tags(line, i + 1, in_tag)
            ELSE outside_tags(line, i + 1, in_tag)

\* .filter(|l| !l.is_empty())
non_empty_lines(ls) == SelectSeq(ls, LAMBDA l : l # "")

\* the lines without their tags, each trimmed
untagged(ls) == [i \in 1..Len(ls) |-> trim(outside_tags(ls[i], 1, FALSE))]

strip_xml_tags(s) == JoinLines(non_empty_lines(untagged(str_lines(s))))

\* the closure over the lines of a comment: each line trimmed, without
\* `prefix` when it starts with it, and trimmed again
clean_lines(ls, prefix) ==
    [i \in 1..Len(ls) |->
        trim(unwrap_or(strip_prefix_str(trim(ls[i]), prefix), trim(ls[i])))]

\* a block comment without its opener "/**" or "/*", and without "*/" at its end
strip_open(trimmed) ==
    unwrap_or(or_else(strip_prefix_str(trimmed, "/**"), strip_prefix_str(trimmed, "/*")),
              trimmed)

strip_close(opened) == unwrap_or(strip_suffix(opened, "*/"), opened)

\* the prefix of a line comment of the language
line_prefix_of(trimmed, lang) ==
    CASE lang \in {"rust", "csharp", "fsharp"} ->
            IF starts_with(trimmed, "///") THEN "///" ELSE "//"
      [] lang \in {"python", "ruby"} -> "#"
      [] lang = "haskell" -> IF starts_with(trimmed, "-- |") THEN "-- |" ELSE "--"
      [] OTHER -> "//"

\* `if lang == "csharp" { strip_xml_tags(&stripped) } else { stripped }`
xml_stripped(stripped, lang) ==
    IF lang = "csharp" THEN strip_xml_tags(stripped) ELSE stripped

\* strip_comment_markers after `let trimmed = raw.trim()`: a text that starts
\* with "/*" loses its delimiters, each of its lines a leading `*`, and its
\* empty lines; any other text loses the line prefix on each line
strip_trimmed(trimmed, lang) ==
    IF starts_with(trimmed, "/*")
    THEN JoinLines(non_empty_lines(
             clean_lines(str_lines(strip_close(strip_open(trimmed))), "*")))
    ELSE xml_stripped(
             JoinLines(clean_lines(str_lines(trimmed), line_prefix_of(trimmed, lang))),
             lang)

strip_comment_markers(raw, lang) == strip_trimmed(trim(raw), lang)

\* node.prev_named_sibling() for the node sibs[j], whose siblings, named or
\* not, are sibs: the position of the nearest named one before it, 0 for None
prev_named_sibling(sibs, j) ==
    LET named == {k \in 1..(j - 1) : sibs[k].named}
    IN IF named = {} THEN 0 ELSE CHOOSE k \in named : \A m \in named : m <= k

\* a walk that steps over a comment that is not documentation
RECURSIVE sibling_walk_past_plain(_, _, _, _)
sibling_walk_past_plain(sibs, j, lang, comments) ==
    IF j = 0 THEN comments
    ELSE LET s == sibs[j]
             skip_kinds == IF lang = "haskell" THEN {"signature"} ELSE {}
         IN IF s.kind \in comment_kinds_for(lang)
            THEN IF is_doc_comment(node_text(s), lang, s.kind)
                 THEN sibling_walk_past_plain(sibs, prev_named_sibling(sibs, j), lang,
                                   <<strip_comment_markers(node_text(s), lang)>> \o comments)
                 ELSE sibling_walk_past_plain(sibs, prev_named_sibling(sibs, j), lang,
                                              comments)
            ELSE IF s.kind \in skip_kinds
                 THEN sibling_walk_past_plain(sibs, prev_named_sibling(sibs, j), lang,
                                              comments)
                 ELSE comments

\* The `while let Some(s) = sib` loop with sib = sibs[j] (j = 0: None); the
\* comments collected so far are in source order.
RECURSIVE sibling_walk(_, _, _, _)
sibling_walk(sibs, j, lang, comments) ==
    IF j = 0 THEN comments
    ELSE LET s == sibs[j]
             skip_kinds == IF lang = "haskell" THEN {"signature"} ELSE {}
         IN IF s.kind \in comment_kinds_for(lang)
            THEN IF is_doc_comment(node_text(s), lang, s.kind)
                 THEN sibling_walk(sibs, prev_named_sibling(sibs, j), lang,
                                   <<strip_comment_markers(node_text(s), lang)>> \o comments)
                 ELSE comments
            ELSE IF s.kind \in skip_kinds
                 THEN sibling_walk(sibs, prev_named_sibling(sibs, j), lang, comments)
                 ELSE comments

\* the flag of the same loop: TRUE when it ran out of siblings, FALSE when a
\* sibling that is neither skippable nor a doc comment stopped it
RECURSIVE siblings_exhausted(_, _, _)
siblings_exhausted(sibs, j, lang) ==
    IF j = 0 THEN TRUE
    ELSE LET s == sibs[j]
             skip_kinds == IF lang = "haskell" THEN {"signature"} ELSE {}
         IN IF s.kind \in comment_kinds_for(lang)
            THEN is_doc_comment(node_text(s), lang, s.kind)
                 /\ siblings_exhausted(sibs, prev_named_sibling(sibs, j), lang)
            ELSE s.kind \in skip_kinds
                 /\ siblings_exhausted(sibs, prev_named_sibling(sibs, j), lang)

\* the `while let Some(ps) = parent_sib` loop over the named siblings before
\* the parent (Haskell), with parent_sib = uncles[j]
RECURSIVE parent_walk(_, _, _, _)
parent_walk(uncles, j, lang, comments) ==
    IF j = 0 THEN comments
    ELSE LET ps == uncles[j]
         IN IF ps.kind \in comment_kinds_for(lang)
               /\ is_doc_comment(node_text(ps), lang, ps.kind)
            THEN parent_walk(uncles, prev_named_sibling(uncles, j), lang,
                             <<strip_comment_markers(node_text(ps), lang)>> \o comments)
            ELSE comments

\* a node without a parent: the root
NoParent == [kind |-> "", prev |-> <<>>]

\* the comments extract_comment joins: `own`, those of the sibling loop, or
\* for the first function of a Haskell `declarations` block, which has none of
\* its own, those before the block
inherited(own, sibs, i, lang, above) ==
    IF /\ lang = "haskell"
       /\ own = <<>>
       /\ siblings_exhausted(sibs, prev_named_sibling(sibs, i), lang)
       /\ above.kind = "declarations"
    THEN parent_walk(above.prev, prev_named_sibling(above.prev, Len(above.prev) + 1),
                     lang, <<>>)
    ELSE own

\* `if joined.is_empty() { None } else { Some(joined) }`
some_unless_empty(joined) == IF joined = "" THEN None ELSE Some(joined)

\* extract_comment on the node sibs[i]; sibs are the children of its parent,
\* named or not, and `above` is that parent: its kind and the children of its
\* own parent that come before it
extract_comment(sibs, i, lang, above) ==
    IF lang = "python" /\ sibs[i].docstring \notin {None, Some("")}
    THEN sibs[i].docstring
    ELSE IF comment_kinds_for(lang) = {} THEN None
    ELSE some_unless_empty(trim(JoinLines(
             inherited(sibling_walk(sibs, prev_named_sibling(sibs, i), lang, <<>>),
                       sibs, i, lang, above))))

get_node_name(node) == node.name

\* the chunks of an interesting node: the node, or its windows when it has
\* more than max_chunk_lines lines.  The call of split_by_lines names
\* node.kind() and the summary as sixth and seventh argument, for which
\* the function has no parameter: its windows hold neither.
node_chunks(node, lang_name, max_chunk_lines, summary) ==
    IF node.end_row - node.start_row + 1 > max_chunk_lines
    THEN split_by_lines(node_text(node), get_node_name(node), lang_name, node.start_row,
                        max_chunk_lines)
    ELSE <<Chunk(lang_name, get_node_name(node), node_text(node), node.start_row,
                 node.end_row, node.kind, summary)>>

\* collect_chunks on the node sibs[i], whose parent is `above`; collect_children
\* is its loop `for child in node.children(..)` from the child kids[i] on, over
\* the children of a node that is neither interesting nor pruned.
RECURSIVE collect_chunks(_, _, _, _, _, _, _)
RECURSIVE collect_children(_, _, _, _, _, _, _)
collect_chunks(sibs, i, above, lang_name, interesting_kinds, prune_kinds, max_chunk_lines) ==
    IF sibs[i].kind \in interesting_kinds
    THEN node_chunks(sibs[i], lang_name, max_chunk_lines,
                     IF is_summary_kind(lang_name, sibs[i].kind)
                     THEN extract_comment(sibs, i, lang_name, above)
                     ELSE None)
    ELSE IF sibs[i].kind \in prune_kinds
    THEN <<>>
    ELSE collect_children(sibs[i].children, 1,
                          [kind |-> sibs[i].kind, prev |-> SubSeq(sibs, 1, i - 1)],
                          lang_name, interesting_kinds, prune_kinds, max_chunk_lines)

collect_children(kids, i, above, lang_name, interesting_kinds, prune_kinds, max_chunk_lines) ==
    IF i > Len(kids) THEN <<>>
    ELSE collect_chunks(kids, i, above, lang_name, interesting_kinds, prune_kinds,
                        max_chunk_lines)
         \o collect_children(kids, i + 1, above, lang_name, interesting_kinds,
                             prune_kinds, max_chunk_lines)

\* the whole file in windows: no symbol, start_offset 0
whole_file(content, lang_name, max_chunk_lines) ==
    split_by_lines(content.text, "", lang_name, 0, max_chunk_lines)

\* `if chunks.is_empty() { chunks = split_by_lines(..) }`: the whole file in
\* windows when no interesting node was found
or_whole_file(chunks, content, lang_name, max_chunk_lines) ==
    IF chunks = <<>> THEN whole_file(content, lang_name, max_chunk_lines) ELSE chunks

\* the chunks of the tree with the given root
tree_chunks(root, content, lang_name, interesting_kinds, max_chunk_lines) ==
    or_whole_file(collect_chunks(<<root>>, 1, NoParent, lang_name, interesting_kinds,
                                 prune_kinds_for(lang_name), max_chunk_lines),
                  content, lang_name, max_chunk_lines)

\* `content` is the decoded file with what the parser answers for it: the
\* whole file in windows when set_language returns Err or parse returns None
parse_with_grammar(content, lang_name, interesting_kinds, max_chunk_lines) ==
    IF ~content.set_language \/ content.tree = None
    THEN whole_file(content, lang_name, max_chunk_lines)
    ELSE tree_chunks(unwrap(content.tree), content, lang_name,
                     interesting_kinds, max_chunk_lines)

\* the arms of parse_file's match on the extension: the language name and the
\* kinds it passes to parse_with_grammar; name "" is the arm `_ => vec![]`
language_of(ext) ==
    CASE ext = "rs" -> [name |-> "rust", kinds |-> RUST_KINDS]
      [] ext = "py" -> [name |-> "python", kinds |-> PYTHON_KINDS]
      [] ext = "java" -> [name |-> "java", kinds |-> JAVA_KINDS]
      [] ext = "cs" -> [name |-> "csharp", kinds |-> CSHARP_KINDS]
      [] ext \in {"scala", "sc"} -> [name |-> "scala", kinds |-> SCALA_KINDS]
      [] ext = "hs" -> [name |-> "haskell", kinds |-> HASKELL_KINDS]
      [] ext \in {"js", "cjs", "mjs", "jsx"} -> [name |-> "javascript", kinds |-> JS_KINDS]
      [] ext = "ts" -> [name |-> "typescript", kinds |-> TS_KINDS]
      [] ext = "tsx" -> [name |-> "tsx", kinds |-> TS_KINDS]
      [] ext = "go" -> [name |-> "go", kinds |-> GO_KINDS]
      [] ext = "rb" -> [name |-> "ruby", kinds |-> RUBY_KINDS]
      [] ext \in {"fs", "fsx"} -> [name |-> "fsharp", kinds |-> FSHARP_KINDS]
      [] OTHER -> [name |-> "", kinds |-> {}]

parse_file(path, content, max_chunk_lines) ==
    LET lang == language_of(Extension(path))
    IN IF lang.name = "" THEN <<>>
       ELSE parse_with_grammar(content, lang.name, lang.kinds, max_chunk_lines)

\* ---------------------------------------------------------------- hashing, embedding

\* Sha256 over the bytes, hex-encoded: one digest per sample of bytes.
compute_hash(data) == "sha256(" \o data \o ")"

\* UniXcoderEmbedder::embed on a text that it can embed
embed(text) == "vec(" \o text \o ")"

\* Components::trim_left and trim_right: the body without what is no
\* component at that end
RECURSIVE trim_left(_)
trim_left(s) ==
    IF s = "" THEN ""
    ELSE LET i == first_separator(s)
             comp == IF i = 0 THEN s ELSE SubSeq(s, 1, i - 1)
             rest == IF i = 0 THEN "" ELSE SubSeq(s, i + 1, Len(s))
         IN IF is_component(comp) THEN s ELSE trim_left(rest)

RECURSIVE trim_right(_)
trim_right(s) ==
    IF s = "" THEN ""
    ELSE LET i == last_separator(s)
             comp == SubSeq(s, i + 1, Len(s))
             rest == IF i = 0 THEN "" ELSE SubSeq(s, 1, i - 1)
         IN IF is_component(comp) THEN s ELSE trim_right(rest)

\* the body after Components::next has returned n of its components
RECURSIVE skip_components(_, _)
skip_components(s, n) ==
    IF n = 0 \/ s = "" THEN s
    ELSE LET i == first_separator(s)
             comp == IF i = 0 THEN s ELSE SubSeq(s, 1, i - 1)
             rest == IF i = 0 THEN "" ELSE SubSeq(s, i + 1, Len(s))
         IN skip_components(rest, IF is_component(comp) THEN n - 1 ELSE n)

\* path.strip_prefix(dir).unwrap_or(path).to_string_lossy(): when the
\* components of dir begin those of path, the text of path that follows them
\* (Components::as_path: a slice of the path, trimmed at both ends), else path
strip_prefix(path, dir) ==
    LET ps == components(path)
        ds == components(dir)
        skipped == Len(ds) - (IF start_dir(path) = "" THEN 0 ELSE 1)
    IN IF Len(ds) <= Len(ps) /\ SubSeq(ps, 1, Len(ds)) = ds
       THEN IF ds = <<>>
            THEN start_dir(path) \o trim_right(body_of(path))
            ELSE trim_right(trim_left(skip_components(body_of(path), skipped)))
       ELSE path

\* rel_path of every modelled file: path.strip_prefix(target_dir)
RelPaths == [f \in Files |-> strip_prefix(f, target_dir)]

\* ---------------------------------------------------------------- store

ChunkRecord(rel_path, current_hash, chunk, vector, summary_vector) ==
    [id |-> rel_path \o ":" \o ToString(chunk.start_line),
     file_path |-> rel_path,
     file_hash |-> current_hash,
     language |-> chunk.language,
     symbol |-> chunk.symbol,
     content |-> chunk.content,
     start_line |-> chunk.start_line,
     end_line |-> chunk.end_line,
     vector |-> vector,
     summary |-> chunk_summary(chunk),
     summary_vector |-> summary_vector]

\* the distinct rows of the table, and the table row by row: <<row, k>> is the
\* k-th stored copy of row
Rows(st) == DOMAIN st.rows

Stored(st) == UNION {{<<r, k>> : k \in 1..st.rows[r]} : r \in Rows(st)}

RowsOf(st, file_path) == {r \in Rows(st) : r.file_path = file_path}

\* the part of the table that belongs to file_path, as a bag
TableOf(st, file_path) == [r \in RowsOf(st, file_path) |-> st.rows[r]]

\* the fields of the Arrow schema of the table
chunks_schema ==
    <<"id", "file_path", "file_hash", "language", "symbol", "content",
      "start_line", "end_line", "summary", "vector">>

\* Store::open_or_create is these calls, each awaited:
\*   conn.drop_table (reindex only, its result ignored), conn.open_table, and
\*   conn.create_empty_table when open_table found no table.
drop_table(st) == NoTable

\* open_table: Ok(table), or Err(TableNotFound)
open_table(st) == IF st.exists THEN "Ok" ELSE "TableNotFound"

\* create_empty_table on a database that has no such table
create_empty_table(st) == [exists |-> TRUE, rows |-> EmptyBag]

\* Store::clear: table.delete("1 = 1")
clear(st) == [st EXCEPT !.rows = EmptyBag]

count_rows(st) == BagCardinality(st.rows)

list_files(st) == {r.file_path : r \in Rows(st)}

\* Store::get_file_hash: the file_hash of the one row a limit(1) scan returns
\* (any row of that path), or None
get_file_hash(st, file_path) ==
    IF RowsOf(st, file_path) = {} THEN {None}
    ELSE {Some(r.file_hash) : r \in RowsOf(st, file_path)}

delete_file(st, file_path) ==
    [st EXCEPT !.rows = [r \in {x \in Rows(st) : x.file_path # file_path} |-> st.rows[r]]]

\* the arrays insert hands to RecordBatch::try_new, in order
insert_columns ==
    <<"id", "file_path", "file_hash", "language", "symbol", "content",
      "start_line", "end_line", "summary", "vector", "summary_vector">>

\* RecordBatch::try_new(schema, columns) is Ok: one array per field
try_new(schema, columns) == Len(schema) = Len(columns)

\* insert that appends the first record of the batch and then returns Err
insert_partial(st, chunks) ==
    IF chunks = <<>> THEN [ok |-> TRUE, table |-> st]
    ELSE [ok |-> FALSE, table |-> [st EXCEPT !.rows = @ (+) SeqToBag(<<chunks[1]>>)]]

\* Store::insert when table.add does not fail: whether it returns Ok, and the
\* table it leaves.  Ok and nothing done for an empty batch; else the schema
\* and the arrays go to RecordBatch::try_new, whose Err is returned before
\* the table is touched; else table.add appends one batch of all the records.
insert(st, chunks) ==
    IF chunks = <<>> THEN [ok |-> TRUE, table |-> st]
    ELSE IF ~try_new(chunks_schema, insert_columns) THEN [ok |-> FALSE, table |-> st]
    ELSE [ok |-> TRUE, table |-> [st EXCEPT !.rows = @ (+) SeqToBag(chunks)]]

\* Store::search_by_summary: the rows its filter `summary IS NOT NULL` admits
\* to the search on the summary_vector column
summary_candidates(st) == {x \in Stored(st) : x[1].summary # None}

\* ---------------------------------------------------------------- walker

\* collect_files with the default include/exclude lists: every modelled file
\* has a default extension and lies in no pruned directory
collect_files(tree) == {f \in Files : tree[f] # Absent}

\* ---------------------------------------------------------------- indexer state

\* The locals of one index run (indexer::run or indexer::refresh, then
\* index_files).  pc is the await point the run is at:
\*   "idle"     not started           "drop"    before drop_table (reindex)
\*   "open"     before open_table     "create"  before create_empty_table
\*   "load"     before the embedder is loaded and the tree is walked
\*   "read"     top of the `for path in files` loop
\*   "gethash"  before get_file_hash  "delete"  before delete_file
\*   "process"  before decode, parse and the embedding task
\*   "insert"   before store.insert
\*   "done"     returned Ok((indexed, skipped))     "failed"  returned Err
\* History fields (written, never read by the run): error, ops, log, inserted,
\* tainted, cleared, store0, tree, perms, edits0, faults0, prev, embeds, failed.
NoRun ==
    [pc |-> "idle", reindex |-> FALSE, walked |-> {}, tainted |-> FALSE,
     tree |-> [f \in Files |-> Absent], perms |-> [f \in Files |-> TRUE],
     edits0 |-> 0, faults0 |-> 0]

IdleRun ==
    [pc |-> "idle", reindex |-> FALSE, walked |-> {}, todo |-> {},
     path |-> Unset, file_bytes |-> Unset, current_hash |-> Unset, stored_hash |-> None,
     rel_path |-> Unset,    \* path relative to target_dir, the stored key
     indexed |-> 0, skipped |-> 0,
     records |-> <<>>,      \* the records built for the current file
     embeds |-> 0,          \* embed calls made for the current file
     failed |-> 0,          \* those that returned Err
     error |-> Unset,       \* the Err the run returned: "open_or_create",
                            \* "load", "join", "store" (the database failed)
                            \* or "insert" (RecordBatch::try_new failed)
     ops |-> <<>>,          \* store calls made for the current file
     log |-> {},            \* one entry per file the loop has finished
     inserted |-> EmptyBag, \* the rows this run has inserted
     tainted |-> FALSE,     \* another process modified the tree after the
                            \* run walked it, or cleared the table during it
     cleared |-> FALSE,     \* another process cleared the table after the
                            \* run was called
     store0 |-> NoTable,    \* the table when the run was called
     tree |-> [f \in Files |-> Absent],  \* the tree and the permissions when
     perms |-> [f \in Files |-> TRUE],   \* the run walked the tree
     edits0 |-> 0,          \* edits and faults when the run was called
     faults0 |-> 0,
     prev |-> NoRun]        \* the run this runner made before (see Summary)

\* what the next run of the runner keeps of run rn
Summary(rn) ==
    [pc |-> rn.pc, reindex |-> rn.reindex, walked |-> rn.walked, tainted |-> rn.tainted,
     tree |-> rn.tree, perms |-> rn.perms, edits0 |-> rn.edits0, faults0 |-> rn.faults0]

\* the run is in its loop over the walked files
Walked(r) == run[r].pc \in {"read", "gethash", "delete", "process", "insert"}

Active(r) == Walked(r) \/ run[r].pc \in {"drop", "open", "create", "load"}

\* a filesystem event that some modelled run can still observe
Observable == edits < MaxEdits /\ (runs < MaxRuns \/ \E r \in Runners : Active(r))

\* What the loop did with one file: the bytes it read (Unset: unreadable), the
\* stored hash it saw, its store calls in order, the outcome ("unreadable",
\* "unchanged", "binary", "empty", "indexed"), the number of records inserted,
\* of embed calls made and of embed calls that failed.
LogEntry(path, bytes, stored, ops, outcome, nrecords, nembeds, nfailed) ==
    [path |-> path, bytes |-> bytes, stored |-> stored, ops |-> ops,
     outcome |-> outcome, records |-> nrecords, embeds |-> nembeds,
     failed |-> nfailed]

\* The locals of one request handler (find_handler or query_handler).  pc is
\* the await point: "idle" no request, "embed" waiting for the embedder's reply,
\* "open" before open_or_create's open_table, "create" before its
\* create_empty_table, "search" before the search calls,
\* "done" the response was returned.  History field: merged.
IdleQuery ==
    [pc |-> "idle", kind |-> "find", limit |-> 0,
     min_score |-> {},      \* Option<f32>: {} is None, {t} is Some(t)
     content |-> <<>>,      \* what store.search returned
     summary |-> <<>>,      \* what store.search_by_summary returned
     merged |-> <<>>,       \* what rrf_merge returned
     status |-> 0,          \* HTTP status of the response, 0 before it
     error |-> Unset,       \* the call whose error a 500 response reports
     body |-> <<>>,         \* the rows of the response
     content_res |-> "pending",  \* the arms of the search: "pending", "ok"
     summary_res |-> "pending"]  \* or "err"

\* The watcher: the unbounded event channel and the spawned consumer loop.  pc:
\* "recv" in event_rx.recv().await, "sleep" in the debounce sleep, "refresh" in
\* indexer::refresh(..).await.
IdleWatcher ==
    [pc |-> "recv",
     queue |-> 0,           \* events in the channel
     sent |-> 0,            \* events the notify callback has forwarded
     ignored |-> 0,         \* events of other kinds, which the callback drops
     warnings |-> 0,        \* refreshes that returned Err and were logged
     inflight |-> 0,        \* refreshes started by the loop that have not returned
     started |-> 0,         \* refreshes the loop has started
     served |-> 0,          \* forwarded events enqueued before the last refresh start
     during |-> 0,          \* forwarded events enqueued while a refresh was running
     closed |-> FALSE]      \* the RecommendedWatcher, and with it event_tx, is dropped

\* The embedder actor right after spawn_embedder_actor: the worker thread is
\* loading the model, the queue is empty.  The queue is first-in first-out and
\* senders blocked on a full queue are admitted in arrival order, so requests
\* are numbered by arrival and each group below is a range of that numbering.
IdleActor ==
    [pc |-> "load",         \* "load", "recv", "embed", "exited" (load failed), "stopped"
     blocked |-> 0,         \* requests waiting in embed_tx.send(..).await
     accepted |-> 0,        \* requests the queue has accepted
     taken |-> 0,           \* requests rx.recv() has returned
     answered |-> 0,        \* requests whose reply_tx.send(result) has run
     errors |-> 0,          \* those answered with Err
     dropped |-> 0,         \* accepted requests whose reply_tx was dropped unused
     rejected |-> 0,        \* requests whose embed_tx.send returned an error
     senders |-> TRUE]      \* some clone of embed_tx is alive

\* no pure function is being called
NoCall == [fn |-> "none", args |-> <<>>, result |-> <<>>, returned |-> FALSE]

Init ==
    /\ q = IdleQuery
    /\ w = IdleWatcher
    /\ actor = IdleActor
    /\ call = NoCall
    /\ fs = InitTree
    /\ perm = [f \in Files |-> TRUE]
    /\ store = NoTable
    /\ run = [r \in Runners |-> IdleRun]
    /\ warned = {}
    /\ edits = 0
    /\ runs = 0
    /\ faults = 0

\* ---------------------------------------------------------------- filesystem events

\* f is modified: the runs that have walked the tree no longer see it as it is
Taint(f) ==
    [r \in Runners |->
        IF Walked(r) THEN [run[r] EXCEPT !.tainted = TRUE] ELSE run[r]]

\* a file is created or its bytes are replaced
WriteFile(f, k) ==
    /\ Observable
    /\ fs[f] # k
    /\ fs' = [fs EXCEPT ![f] = k]
    /\ run' = Taint(f)
    /\ edits' = edits + 1
    /\ UNCHANGED <<perm, store, warned, runs, faults, q, w, actor, call>>

RemoveFile(f) ==
    /\ Observable
    /\ fs[f] # Absent
    /\ fs' = [fs EXCEPT ![f] = Absent]
    /\ run' = Taint(f)
    /\ edits' = edits + 1
    /\ UNCHANGED <<perm, store, warned, runs, faults, q, w, actor, call>>

\* the permissions of a file change: it becomes unreadable or readable
Chmod(f) ==
    /\ Observable
    /\ fs[f] # Absent
    /\ perm' = [perm EXCEPT ![f] = ~@]
    /\ run' = Taint(f)
    /\ edits' = edits + 1
    /\ UNCHANGED <<fs, store, warned, runs, faults, q, w, actor, call>>

\* `db clear --yes` in another process, between its two awaited store calls
Clearing == [fn |-> "db_clear", args |-> <<>>, result |-> <<>>, returned |-> FALSE]

\* Store::try_open(..).await?: Some(store) when the table exists; None, after
\* which the command prints a message and ends, when it does not
TryOpen ==
    /\ Observable
    /\ call = NoCall
    /\ call' = IF store.exists THEN Clearing ELSE NoCall
    /\ edits' = edits + 1
    /\ UNCHANGED <<fs, perm, store, run, warned, runs, faults, q, w, actor>>

\* store.clear().await?: table.delete("1 = 1") deletes every row of the
\* table; Err when the table has been dropped since try_open
Clear ==
    /\ call = Clearing
    /\ call' = NoCall
    /\ store' = IF store.exists THEN clear(store) ELSE store
    /\ run' = [r \in Runners |->
                 IF run[r].pc = "idle" \/ ~store.exists THEN run[r]
                 ELSE [run[r] EXCEPT !.cleared = TRUE, !.tainted = @ \/ Active(r)]]
    /\ UNCHANGED <<fs, perm, warned, edits, runs, faults, q, w, actor>>

\* ---------------------------------------------------------------- indexer::run, indexer::refresh

\* the locals of runner r when run or refresh is called
Started(r, reindex) ==
    [IdleRun EXCEPT !.pc = IF reindex THEN "drop" ELSE "open",
                    !.reindex = reindex,
                    !.store0 = store,
                    !.tree = fs,
                    !.perms = perm,
                    !.edits0 = edits,
                    !.faults0 = faults,
                    !.prev = Summary(run[r])]

\* run or refresh is called: lancedb::connect returns Ok
StartRun(r, reindex) ==
    /\ ~Active(r)
    /\ runs < MaxRuns
    /\ run' = [run EXCEPT ![r] = Started(r, reindex)]
    /\ warned' = {}
    /\ runs' = runs + 1
    /\ UNCHANGED <<fs, perm, store, edits, faults, q, w, actor, call>>

\* indexer::run (the `index` command), args.reindex either way
IndexRun(r) == \E reindex \in BOOLEAN : StartRun(r, reindex)

\* indexer::refresh: the watcher's refresh and the auto-refresh of find/query
Refresh(r) == StartRun(r, FALSE)

\* open_or_create, `let _ = conn.drop_table(table_name).await`: the table is
\* dropped (Err(TableNotFound), which is ignored, when there is none)
DropTable(r) ==
    /\ run[r].pc = "drop"
    /\ store' = drop_table(store)
    /\ run' = [run EXCEPT ![r] = [@ EXCEPT !.pc = "open"]]
    /\ UNCHANGED <<fs, perm, warned, edits, runs, faults, q, w, actor, call>>

\* drop_table returns another Err and leaves the table; the result is ignored
DropTableFails(r) ==
    /\ run[r].pc = "drop"
    /\ store.exists
    /\ faults < MaxFaults
    /\ faults' = faults + 1
    /\ run' = [run EXCEPT ![r] = [@ EXCEPT !.pc = "open"]]
    /\ UNCHANGED <<fs, perm, store, warned, edits, runs, q, w, actor, call>>

\* open_or_create, conn.open_table(table_name).execute().await
OpenTable(r) ==
    /\ run[r].pc = "open"
    /\ run' = [run EXCEPT ![r] =
                 [@ EXCEPT !.pc = IF open_table(store) = "Ok" THEN "load" ELSE "create"]]
    /\ UNCHANGED <<fs, perm, store, warned, edits, runs, faults, q, w, actor, call>>

\* open_or_create, conn.create_empty_table(table_name, schema).execute().await:
\* it returns Err, and `?` ends the run, when another caller has created the
\* table since open_table looked
CreateTable(r) ==
    /\ run[r].pc = "create"
    /\ IF store.exists
       THEN /\ store' = store
            /\ run' = [run EXCEPT ![r] =
                         [@ EXCEPT !.pc = "failed", !.error = "open_or_create"]]
       ELSE /\ store' = create_empty_table(store)
            /\ run' = [run EXCEPT ![r] = [@ EXCEPT !.pc = "load"]]
    /\ UNCHANGED <<fs, perm, warned, edits, runs, faults, q, w, actor, call>>

\* open_or_create returns Err and `?` ends the run: connect (seen at the first
\* await of the call), open_table or create_empty_table fails on the database
OpenOrCreateFails(r) ==
    /\ run[r].pc \in {"drop", "open", "create"}
    /\ faults < MaxFaults
    /\ faults' = faults + 1
    /\ run' = [run EXCEPT ![r] = [@ EXCEPT !.pc = "failed", !.error = "open_or_create"]]
    /\ UNCHANGED <<fs, perm, store, warned, edits, runs, q, w, actor, call>>

\* spawn_blocking(UniXcoderEmbedder::load).await returns the embedder; then
\* walker::collect_files and the entry of index_files, which do not await
LoadEmbedder(r) ==
    /\ run[r].pc = "load"
    /\ run' = [run EXCEPT ![r] =
                 [@ EXCEPT !.pc = "read",
                           !.walked = collect_files(fs),
                           !.todo = collect_files(fs),
                           !.tree = fs,
                           !.perms = perm]]
    /\ UNCHANGED <<fs, perm, store, warned, edits, runs, faults, q, w, actor, call>>

\* the blocking task panics (JoinError) or UniXcoderEmbedder::load returns
\* Err: the run ends after open_or_create
LoadFails(r) ==
    /\ run[r].pc = "load"
    /\ faults < MaxFaults
    /\ faults' = faults + 1
    /\ run' = [run EXCEPT ![r] = [@ EXCEPT !.pc = "failed", !.error = "load"]]
    /\ UNCHANGED <<fs, perm, store, warned, edits, runs, q, w, actor, call>>

\* ---------------------------------------------------------------- index_files

NextFile(r, entry) ==
    [run[r] EXCEPT !.pc = "read", !.path = Unset, !.file_bytes = Unset,
                   !.rel_path = Unset, !.current_hash = Unset, !.stored_hash = None, !.ops = <<>>,
                   !.records = <<>>, !.embeds = 0, !.failed = 0,
                   !.log = @ \cup {entry}]

\* a read failure counted as skipped
ReadFails_skipped(r) ==
    /\ run[r].pc = "read"
    /\ \E path \in run[r].todo :
         /\ fs[path] = Absent \/ ~perm[path]
         /\ warned' = warned \cup {<<"could not read", path>>}
         /\ run' = [run EXCEPT ![r] =
                      [NextFile(r, LogEntry(path, Unset, None, <<>>, "unreadable", 0, 0, 0))
                         EXCEPT !.todo = @ \ {path}, !.skipped = @ + 1]]
    /\ UNCHANGED <<fs, perm, store, edits, runs, faults, q, w, actor, call>>

\* std::fs::read fails: warn and continue
ReadFails(r) ==
    /\ run[r].pc = "read"
    /\ \E path \in run[r].todo :
         /\ fs[path] = Absent \/ ~perm[path]
         /\ warned' = warned \cup {<<"could not read", path>>}
         /\ run' = [run EXCEPT ![r] =
                      [NextFile(r, LogEntry(path, Unset, None, <<>>, "unreadable", 0, 0, 0))
                         EXCEPT !.todo = @ \ {path}]]
    /\ UNCHANGED <<fs, perm, store, edits, runs, faults, q, w, actor, call>>

\* std::fs::read succeeds; compute_hash; rel_path
ReadFile(r) ==
    /\ run[r].pc = "read"
    /\ \E path \in run[r].todo :
         /\ fs[path] # Absent /\ perm[path]
         /\ run' = [run EXCEPT ![r] =
                      [@ EXCEPT !.todo = @ \ {path},
                                !.path = path,
                                !.file_bytes = fs[path],
                                !.current_hash = compute_hash(fs[path]),
                                !.rel_path = RelPaths[path],
                                !.pc = IF run[r].reindex THEN "process" ELSE "gethash"]]
    /\ UNCHANGED <<fs, perm, store, warned, edits, runs, faults, q, w, actor, call>>

rel_path(r) == run[r].rel_path

\* `if !reindex { if let Some(stored_hash) = ... }`: what follows get_file_hash
hash_branch(stored_hash, current_hash) ==
    IF stored_hash # None
    THEN IF stored_hash = Some(current_hash) THEN "skip" ELSE "delete"
    ELSE "process"

\* the store calls of `if !reindex { .. }`, one await each:
\* store.get_file_hash(&rel_path) and the comparison with current_hash, then,
\* when the stored hash differs, store.delete_file(&rel_path)
Reconcile(r) ==
    /\ run[r].pc \in {"gethash", "delete"}
    /\ IF run[r].pc = "gethash"
       THEN /\ \E stored_hash \in get_file_hash(store, rel_path(r)) :
                 LET ops == Append(run[r].ops, "get_file_hash")
                     branch == hash_branch(stored_hash, run[r].current_hash)
                 IN IF branch = "skip"
                    THEN run' = [run EXCEPT ![r] =
                                   [NextFile(r, LogEntry(run[r].path, run[r].file_bytes,
                                                         stored_hash, ops, "unchanged",
                                                         0, 0, 0))
                                      EXCEPT !.skipped = @ + 1]]
                    ELSE run' = [run EXCEPT ![r] =
                                   [@ EXCEPT !.stored_hash = stored_hash,
                                             !.ops = ops,
                                             !.pc = branch]]
            /\ store' = store
       ELSE /\ store' = delete_file(store, rel_path(r))
            /\ run' = [run EXCEPT ![r] =
                         [@ EXCEPT !.ops = Append(@, "delete_file"), !.pc = "process"]]
    /\ UNCHANGED <<fs, perm, warned, edits, runs, faults, q, w, actor, call>>

\* a decode failure counted as indexed
SkipBinary_indexed(r) ==
    /\ run[r].pc = "process"
    /\ ~Content(run[r].file_bytes).utf8
    /\ run' = [run EXCEPT ![r] =
                 [NextFile(r, LogEntry(run[r].path, run[r].file_bytes, run[r].stored_hash,
                                       run[r].ops, "binary", 0, 0, 0))
                    EXCEPT !.indexed = @ + 1]]
    /\ UNCHANGED <<fs, perm, store, warned, edits, runs, faults, q, w, actor, call>>

\* String::from_utf8 fails: skip binary files
SkipBinary(r) ==
    /\ run[r].pc = "process"
    /\ ~Content(run[r].file_bytes).utf8
    /\ run' = [run EXCEPT ![r] =
                 [NextFile(r, LogEntry(run[r].path, run[r].file_bytes, run[r].stored_hash,
                                       run[r].ops, "binary", 0, 0, 0))
                    EXCEPT !.skipped = @ + 1]]
    /\ UNCHANGED <<fs, perm, store, warned, edits, runs, faults, q, w, actor, call>>

\* parse_file(&path, &content, max_chunk_lines) on every modelled file: the
\* chunks of file f when its bytes are k
ChunkTable ==
    [f \in Files, k \in ContentKeys |-> parse_file(f, Content(k), MaxChunkLines)]

ChunksOf(f, k) == ChunkTable[f, k]

Chunks(r) == ChunksOf(run[r].path, run[r].file_bytes)

\* parse_file returns no chunk
SkipEmpty(r) ==
    /\ run[r].pc = "process"
    /\ Content(run[r].file_bytes).utf8
    /\ Chunks(r) = <<>>
    /\ run' = [run EXCEPT ![r] =
                 [NextFile(r, LogEntry(run[r].path, run[r].file_bytes, run[r].stored_hash,
                                       run[r].ops, "empty", 0, 0, 0))
                    EXCEPT !.skipped = @ + 1]]
    /\ UNCHANGED <<fs, perm, store, warned, edits, runs, faults, q, w, actor, call>>

\* The records of one file: chunk i is dropped when embedding its content
\* failed (i \in failV); its summary_vector is None when it has no summary or
\* embedding the summary failed (i \in failS).
Records(rel, current_hash, chunks, failV, failS) ==
    LET rec(i) == ChunkRecord(rel, current_hash, chunks[i], embed(chunks[i].content),
                              IF chunk_summary(chunks[i]) = None \/ i \in failS
                              THEN None
                              ELSE Some(embed(unwrap(chunk_summary(chunks[i])))))
        all == [i \in DOMAIN chunks |-> rec(i)]
    IN SelectIdx(all, DOMAIN chunks \ failV)

WithSummary(chunks) == {i \in DOMAIN chunks : chunk_summary(chunks[i]) # None}

\* the blocking task embeds every chunk and summary and is awaited; the
\* records are built, with a warning for each chunk whose embedding failed
EmbedChunks(r) ==
    /\ run[r].pc = "process"
    /\ Content(run[r].file_bytes).utf8
    /\ Chunks(r) # <<>>
    /\ \E failV \in SUBSET DOMAIN Chunks(r), failS \in SUBSET WithSummary(Chunks(r)) :
         LET records == Records(rel_path(r), run[r].current_hash, Chunks(r), failV, failS)
             nfail == Cardinality(failV) + Cardinality(failS)
             nembeds == Len(Chunks(r)) + Cardinality(WithSummary(Chunks(r)))
         IN /\ faults + nfail <= MaxFaults
            /\ faults' = faults + nfail
            /\ warned' = IF failV = {} THEN warned
                         ELSE warned \cup {<<"embed failed", rel_path(r)>>}
            /\ run' = [run EXCEPT ![r] =
                         [@ EXCEPT !.pc = "insert", !.records = records,
                                   !.embeds = nembeds, !.failed = nfail]]
    /\ UNCHANGED <<fs, perm, store, edits, runs, q, w, actor, call>>

\* the blocking task panics: the JoinError ends the run
EmbedTaskFails(r) ==
    /\ run[r].pc = "process"
    /\ Content(run[r].file_bytes).utf8
    /\ Chunks(r) # <<>>
    /\ faults < MaxFaults
    /\ faults' = faults + 1
    /\ run' = [run EXCEPT ![r] = [@ EXCEPT !.pc = "failed", !.error = "join"]]
    /\ UNCHANGED <<fs, perm, store, warned, edits, runs, q, w, actor, call>>

\* store.insert(&records).await?: on Ok indexed += 1, on the Err of
\* RecordBatch::try_new the run ends
Insert(r) ==
    /\ run[r].pc = "insert"
    /\ LET res == insert(store, run[r].records)
           ops == Append(run[r].ops, "insert")
       IN /\ store' = res.table
          /\ run' = [run EXCEPT ![r] =
                       IF res.ok
                       THEN [NextFile(r, LogEntry(run[r].path, run[r].file_bytes,
                                                  run[r].stored_hash, ops, "indexed",
                                                  Len(run[r].records), run[r].embeds,
                                                  run[r].failed))
                               EXCEPT !.indexed = @ + 1,
                                      !.inserted = @ (+) SeqToBag(run[r].records)]
                       ELSE [@ EXCEPT !.pc = "failed", !.error = "insert", !.ops = ops]]
    /\ UNCHANGED <<fs, perm, warned, edits, runs, faults, q, w, actor, call>>

\* the database fails a store call and `?` ends the run: get_file_hash,
\* delete_file, or the table.add of an insert (the table is left as it was)
StoreFails(r) ==
    /\ \/ run[r].pc \in {"gethash", "delete"}
       \/ /\ run[r].pc = "insert"
          /\ run[r].records # <<>>
          /\ try_new(chunks_schema, insert_columns)
    /\ faults < MaxFaults
    /\ faults' = faults + 1
    /\ run' = [run EXCEPT ![r] = [@ EXCEPT !.pc = "failed", !.error = "store"]]
    /\ UNCHANGED <<fs, perm, store, warned, edits, runs, q, w, actor, call>>

\* the loop is over: Ok((indexed, skipped))
Finish(r) ==
    /\ run[r].pc = "read"
    /\ run[r].todo = {}
    /\ run' = [run EXCEPT ![r] = [@ EXCEPT !.pc = "done"]]
    /\ UNCHANGED <<fs, perm, store, warned, edits, runs, faults, q, w, actor, call>>

\* ---------------------------------------------------------------- specification

\* the steps of a run of runner r once open_or_create is past drop_table
RefreshStep(r) ==
    \/ OpenTable(r)
    \/ CreateTable(r)
    \/ OpenOrCreateFails(r)
    \/ LoadEmbedder(r)
    \/ LoadFails(r)
    \/ ReadFails(r)
    \/ ReadFile(r)
    \/ Reconcile(r)
    \/ SkipBinary(r)
    \/ SkipEmpty(r)
    \/ EmbedChunks(r)
    \/ EmbedTaskFails(r)
    \/ Insert(r)
    \/ StoreFails(r)
    \/ Finish(r)

\* the steps of runner r
RunnerStep(r) ==
    \/ IndexRun(r)
    \/ Refresh(r)
    \/ DropTable(r)
    \/ DropTableFails(r)
    \/ RefreshStep(r)

\* what other processes do to the tree and to the database
External ==
    \/ \E f \in Files : \E k \in Writable(f) : WriteFile(f, k)
    \/ \E f \in Files : RemoveFile(f)
    \/ \E f \in Files : Chmod(f)
    \/ TryOpen
    \/ Clear

\* One index run at a time (runner 1), interleaved with the events of other
\* processes.
Next ==
    \/ External
    \/ RunnerStep(1)

Spec == Init /\ [][Next]_vars

\* the steps of a refresh by runner r
ConcurrentStep(r) ==
    \/ Refresh(r)
    \/ RefreshStep(r)

NextConcurrent ==
    \/ External
    \/ \E r \in Runners : ConcurrentStep(r)

\* Two refreshes against the same database, their steps interleaved: the
\* watcher's refresh in the daemon and the auto-refresh of a command.
SpecConcurrent == Init /\ [][NextConcurrent]_vars

\* ---------------------------------------------------------------- search

\* bounds of the modelled requests: body.limit, and the distances a query
\* vector can have to a stored vector
MaxLimit == 3
MaxDist == 1

Dists == 0..MaxDist

SearchResult(row, score) ==
    [id |-> row.id, file_path |-> row.file_path, start_line |-> row.start_line,
     end_line |-> row.end_line, symbol |-> row.symbol, content |-> row.content,
     score |-> score, summary |-> row.summary]

\* no truncation
Take_all(seq, n) == seq

\* Vec::truncate / the limit of a vector search
Take(seq, n) == SubSeq(seq, 1, Min(n, Len(seq)))

\* the orders in which the elements of S can be listed
Orders(S) ==
    {f \in [1..Cardinality(S) -> S] : \A i, j \in 1..Cardinality(S) : f[i] = f[j] => i = j}

\* the vectors a query vector is compared with
VectorsOf(st) ==
    {r.vector : r \in Rows(st)} \cup {r.summary_vector : r \in Rows(st)}

\* vector_search on a column: the rows nearest first (rows at the same distance
\* in any order), at most `limit` of them, each with its _distance as score.
\* dist gives the distance of the query vector to each stored vector.
\* `rows` are stored rows <<row, k>>: every stored copy is a candidate.
nearest(rows, column, dist, limit) ==
    {Take([i \in DOMAIN f |-> SearchResult(f[i][1], dist[f[i][1][column]])], limit) :
        f \in {g \in Orders(rows) :
                  \A i, j \in DOMAIN g :
                      i < j => dist[g[i][1][column]] <= dist[g[j][1][column]]}}

\* Store::search
search(st, dist, limit) == nearest(Stored(st), "vector", dist, limit)

\* the table has the column a vector search names
has_column(column) == column \in Range(chunks_schema)

\* vector_search(..).column(column)..execute() returns Ok: the table is there
\* and has the column
can_search(st, column) == st.exists /\ has_column(column)

\* Store::search_by_summary
search_by_summary(st, dist, limit) ==
    nearest(summary_candidates(st), "summary_vector", dist, limit)

\* ---------------------------------------------------------------- rrf_merge

K == 60

\* Fused scores are kept as exact fractions over RrfScale, the product of the
\* denominators K + rank of the ranks a list of MaxLimit rows can have.
RrfScale ==
    LET P[n \in 0..MaxLimit] == IF n = 0 THEN 1 ELSE P[n - 1] * (K + n)
    IN P[MaxLimit]

\* a contribution computed from the 0-based index
rrf_from_zero(rank) == RrfScale \div (K + rank)

\* 1.0 / (K + (rank + 1)) for the 0-based enumerate() index rank
rrf(rank) == RrfScale \div (K + (rank + 1))

\* the sum of the contributions of the positions of `results` that hold id
contribution(results, id) ==
    LET S[n \in 0..Len(results)] ==
            IF n = 0 THEN 0
            ELSE S[n - 1] + (IF results[n].id = id THEN rrf(n - 1) ELSE 0)
    IN S[Len(results)]

\* the HashMap `scores` after both loops: id -> (the first row inserted under
\* that id, the sum of its contributions)
scores(content_results, summary_results) ==
    LET both == content_results \o summary_results
        ids == {both[i].id : i \in DOMAIN both}
        first(id) == both[CHOOSE i \in DOMAIN both :
                            /\ both[i].id = id
                            /\ \A j \in 1..(i - 1) : both[j].id # id]
    IN [id \in ids |-> [r |-> first(id),
                        s |-> contribution(content_results, id)
                              + contribution(summary_results, id)]]

\* into_values().collect() followed by the stable sort_by on descending score:
\* the HashMap yields its values in an unspecified order, which the stable sort
\* keeps among equal scores
sorted_values(sc) ==
    {[i \in DOMAIN f |-> sc[f[i]]] :
        f \in {g \in Orders(DOMAIN sc) :
                  \A i, j \in DOMAIN g : i < j => sc[g[i]].s >= sc[g[j]].s}}

\* the results rrf_merge can return
rrf_merge(content_results, summary_results, limit) ==
    {[i \in DOMAIN Take(m, limit) |-> [m[i].r EXCEPT !.score = m[i].s]] :
        m \in sorted_values(scores(content_results, summary_results))}

\* a filter that also drops a score equal to the threshold
passes_above(r, min_score) == \A t \in min_score : r.score > t

\* .filter(|r| body.min_score.map_or(true, |t| r.score >= t))
passes(r, min_score) == \A t \in min_score : r.score >= t

filter_min_score(results, min_score) ==
    SelectSeq(results, LAMBDA r : passes(r, min_score))

\* ---------------------------------------------------------------- request handlers

\* the min_score values of the modelled requests
Thresholds(kind) ==
    IF kind = "find" THEN Dists
    ELSE {rrf(r) : r \in 0..(MaxLimit - 1)} \cup {2 * rrf(0)}

\* a request arrives: web::Json<SearchRequest>
Request(kind, limit, min_score) ==
    /\ q.pc \in {"idle", "done"}
    /\ q' = [IdleQuery EXCEPT !.pc = "embed", !.kind = kind, !.limit = limit,
                              !.min_score = min_score]
    /\ UNCHANGED <<fs, perm, store, run, warned, edits, runs, faults, w, actor, call>>

Respond(status, body) ==
    [q EXCEPT !.pc = "done", !.status = status, !.body = body]

Fail(error) ==
    [q EXCEPT !.pc = "done", !.status = 500, !.error = error]

\* prepare: the embedder replies Ok(vector)
EmbedReply ==
    /\ q.pc = "embed"
    /\ q' = [q EXCEPT !.pc = "open"]
    /\ UNCHANGED <<fs, perm, store, run, warned, edits, runs, faults, w, actor, call>>

\* prepare: the send fails, the reply is Err, or the reply channel is closed
EmbedFails ==
    /\ q.pc = "embed"
    /\ q' = Fail("embed")
    /\ UNCHANGED <<fs, perm, store, run, warned, edits, runs, faults, w, actor, call>>

\* prepare: Store::open_or_create(db_path, dim, table_name, false), its
\* open_table
OpenStore ==
    /\ q.pc = "open"
    /\ q' = [q EXCEPT !.pc = IF open_table(store) = "Ok" THEN "search" ELSE "create"]
    /\ UNCHANGED <<fs, perm, store, run, warned, edits, runs, faults, w, actor, call>>

\* prepare: open_or_create, its create_empty_table after TableNotFound; it
\* returns Err when another caller has created the table since open_table
\* looked
CreateStore ==
    /\ q.pc = "create"
    /\ IF store.exists
       THEN /\ store' = store
            /\ q' = Fail("open_or_create")
       ELSE /\ store' = create_empty_table(store)
            /\ q' = [q EXCEPT !.pc = "search"]
    /\ UNCHANGED <<fs, perm, run, warned, edits, runs, faults, w, actor, call>>

\* prepare: open_or_create returns Err (connect, open_table or
\* create_empty_table failed on the database)
OpenFails ==
    /\ q.pc \in {"open", "create"}
    /\ q' = Fail("open_or_create")
    /\ UNCHANGED <<fs, perm, store, run, warned, edits, runs, faults, w, actor, call>>

\* find_handler after store.search returned Ok(results): the min_score
\* filter, 200
find_response(results, min_score) == filter_min_score(results, min_score)

\* find_handler: store.search reads the table once; Ok: the filter and 200,
\* Err: 500
FindSearch ==
    /\ q.pc = "search" /\ q.kind = "find"
    /\ IF can_search(store, "vector")
       THEN \E dist \in [VectorsOf(store) -> Dists] :
              \E results \in search(store, dist, q.limit) :
                  q' = [Respond(200, find_response(results, q.min_score))
                          EXCEPT !.content = results, !.content_res = "ok"]
       ELSE q' = [Fail("search") EXCEPT !.content_res = "err"]
    /\ UNCHANGED <<fs, perm, store, run, warned, edits, runs, faults, w, actor, call>>

\* query_handler, the first arm of tokio::join!: store.search reads the table
SearchContent ==
    /\ q.pc = "search" /\ q.kind = "query"
    /\ q.content_res = "pending"
    /\ IF can_search(store, "vector")
       THEN \E dist \in [VectorsOf(store) -> Dists] :
              \E results \in search(store, dist, q.limit) :
                  q' = [q EXCEPT !.content = results, !.content_res = "ok"]
       ELSE q' = [q EXCEPT !.content_res = "err"]
    /\ UNCHANGED <<fs, perm, store, run, warned, edits, runs, faults, w, actor, call>>

\* query_handler, the second arm of tokio::join!: store.search_by_summary
\* reads the table, at another moment than the first arm
SearchSummary ==
    /\ q.pc = "search" /\ q.kind = "query"
    /\ q.summary_res = "pending"
    /\ IF can_search(store, "summary_vector")
       THEN \E dist \in [VectorsOf(store) -> Dists] :
              \E results \in search_by_summary(store, dist, q.limit) :
                  q' = [q EXCEPT !.summary = results, !.summary_res = "ok"]
       ELSE q' = [q EXCEPT !.summary_res = "err"]
    /\ UNCHANGED <<fs, perm, store, run, warned, edits, runs, faults, w, actor, call>>

\* query_handler after both arms returned Ok: rrf_merge, the min_score filter
query_response(merged, min_score) == filter_min_score(merged, min_score)

\* query_handler: join! has both results; (Ok, Ok): rrf_merge, the filter and
\* 200; an Err in either arm: 500
QueryRespond ==
    /\ q.pc = "search" /\ q.kind = "query"
    /\ q.content_res # "pending" /\ q.summary_res # "pending"
    /\ IF q.content_res = "ok" /\ q.summary_res = "ok"
       THEN \E merged \in rrf_merge(q.content, q.summary, q.limit) :
              q' = [Respond(200, query_response(merged, q.min_score))
                      EXCEPT !.merged = merged]
       ELSE q' = Fail("search")
    /\ UNCHANGED <<fs, perm, store, run, warned, edits, runs, faults, w, actor, call>>

\* a search returns Err because the database failed (execute or try_next)
SearchFails ==
    /\ q.pc = "search"
    /\ \/ /\ q.kind = "find"
          /\ q' = [Fail("search") EXCEPT !.content_res = "err"]
       \/ /\ q.kind = "query" /\ q.content_res = "pending"
          /\ q' = [q EXCEPT !.content_res = "err"]
       \/ /\ q.kind = "query" /\ q.summary_res = "pending"
          /\ q' = [q EXCEPT !.summary_res = "err"]
    /\ UNCHANGED <<fs, perm, store, run, warned, edits, runs, faults, w, actor, call>>

\* the trees the daemon is started on: a file of one declaration next to a
\* file of one declaration (readable or not), a binary file or an empty file
DaemonTrees == {[InitTree EXCEPT !["/t/b.rs"] = k] : k \in {"one", "bin", "empty"}}

InitDaemon ==
    /\ q = IdleQuery
    /\ w = IdleWatcher
    /\ actor = IdleActor
    /\ call = NoCall
    /\ fs \in DaemonTrees
    /\ perm \in {p \in [Files -> BOOLEAN] : p["/t/a.rs"] /\ (fs["/t/b.rs"] # "one" => p["/t/b.rs"])}
    /\ store = NoTable
    /\ run = [r \in Runners |-> IdleRun]
    /\ warned = {}
    /\ edits = 0
    /\ runs = 0
    /\ faults = 0

\* the steps of the handler of the request
HandlerStep ==
    \/ EmbedReply
    \/ EmbedFails
    \/ OpenStore
    \/ CreateStore
    \/ OpenFails
    \/ FindSearch
    \/ SearchContent
    \/ SearchSummary
    \/ QueryRespond
    \/ SearchFails

NextQuery ==
    \/ \E kind \in {"find", "query"}, limit \in 0..MaxLimit :
          \E min_score \in {{}} \cup {{t} : t \in Thresholds(kind)} :
              Request(kind, limit, min_score)
    \/ HandlerStep
    \/ ConcurrentStep(1)

\* One request at a time, its awaits interleaved with the steps of the
\* refreshes of the daemon's watcher, which write to the same database.
SpecQuery == InitDaemon /\ [][NextQuery]_vars

\* ---------------------------------------------------------------- rrf_merge and filter calls

\* the rows of the result lists handed to rrf_merge and to the filter
ResultIds == {"a.rs:1", "b.rs:1", "b.rs:3"}

ResultRow(id) ==
    [id |-> id,
     file_path |-> IF id = "a.rs:1" THEN "a.rs" ELSE "b.rs",
     start_line |-> IF id = "b.rs:3" THEN 3 ELSE 1,
     end_line |-> IF id = "b.rs:3" THEN 4 ELSE 2,
     symbol |-> "f", content |-> "fn f() {\n}", summary |-> None]

\* the lists of at most n rows (an id can be in a list more than once: a table
\* can hold a row twice)
RECURSIVE IdLists(_)
IdLists(n) ==
    IF n = 0 THEN {<<>>}
    ELSE IdLists(n - 1)
         \cup {Append(l, id) : l \in {x \in IdLists(n - 1) : Len(x) = n - 1},
                               id \in ResultIds}

\* what a vector search with this limit can return: at most `limit` rows,
\* nearest first, each with its distance as score
ResultLists(limit) ==
    UNION {{[i \in DOMAIN l |-> SearchResult(ResultRow(l[i]), d[i])] :
              d \in {e \in [DOMAIN l -> Dists] :
                        \A i, j \in DOMAIN l : i < j => e[i] <= e[j]}} :
           l \in IdLists(limit)}

\* the same lists with one choice of distances, which rrf_merge does not read:
\* the row at index i is at distance i, capped at MaxDist
RankedLists(limit) ==
    {[i \in DOMAIN l |-> SearchResult(ResultRow(l[i]), Min(i - 1, MaxDist))] :
        l \in IdLists(limit)}

\* find_handler is given Ok(results) by store.search
FindCall(limit, min_score, results) ==
    /\ q.pc = "idle"
    /\ q' = [IdleQuery EXCEPT !.pc = "done", !.kind = "find", !.limit = limit,
                              !.min_score = min_score, !.status = 200,
                              !.content = results, !.content_res = "ok",
                              !.body = find_response(results, min_score)]
    /\ UNCHANGED <<fs, perm, store, run, warned, edits, runs, faults, w, actor, call>>

\* query_handler is given (Ok(content), Ok(summary)) by tokio::join!
MergeCall(limit, min_score, content, summary) ==
    /\ q.pc = "idle"
    /\ \E merged \in rrf_merge(content, summary, limit) :
         q' = [IdleQuery EXCEPT !.pc = "done", !.kind = "query", !.limit = limit,
                                !.min_score = min_score, !.status = 200,
                                !.content = content, !.content_res = "ok",
                                !.summary = summary, !.summary_res = "ok",
                                !.merged = merged,
                                !.body = query_response(merged, min_score)]
    /\ UNCHANGED <<fs, perm, store, run, warned, edits, runs, faults, w, actor, call>>

NextMerge ==
    \/ /\ q.pc = "idle"
       /\ \E limit \in 0..MaxLimit :
            \E min_score \in {{}} \cup {{t} : t \in Thresholds("find")},
               results \in ResultLists(limit) :
                FindCall(limit, min_score, results)
    \/ /\ q.pc = "idle"
       /\ \E limit \in 0..MaxLimit :
            \E min_score \in {{}} \cup {{t} : t \in Thresholds("query")},
               content \in RankedLists(limit), summary \in RankedLists(limit) :
                MergeCall(limit, min_score, content, summary)

\* One call of rrf_merge and of the min_score filter of the two handlers on
\* the result lists a vector search can return.
SpecMerge == Init /\ [][NextMerge]_vars

\* ---------------------------------------------------------------- watcher

\* the number of filesystem notifications of a modelled execution
MaxEvents == 3

ForwardedKinds == {"create", "modify", "remove"}
EventKinds == ForwardedKinds \cup {"access"}

\* the notify callback: Create, Modify and Remove events are sent to the
\* channel, every other event is dropped
NotifyEvent(kind) ==
    /\ ~w.closed
    /\ w.sent + w.ignored < MaxEvents
    /\ w' = IF kind \in ForwardedKinds
            THEN [w EXCEPT !.queue = @ + 1, !.sent = @ + 1,
                           !.during = IF w.pc = "refresh" THEN @ + 1 ELSE @]
            ELSE [w EXCEPT !.ignored = @ + 1]
    /\ UNCHANGED <<fs, perm, store, run, warned, edits, runs, faults, q, actor, call>>

\* event_rx.recv().await returns the first event of a burst; the sleep begins
Recv ==
    /\ w.pc = "recv"
    /\ w.queue > 0
    /\ w' = [w EXCEPT !.queue = @ - 1, !.pc = "sleep"]
    /\ UNCHANGED <<fs, perm, store, run, warned, edits, runs, faults, q, actor, call>>

\* the owner drops the RecommendedWatcher: the callback and its sender are gone
DropWatcher ==
    /\ ~w.closed
    /\ w' = [w EXCEPT !.closed = TRUE]
    /\ UNCHANGED <<fs, perm, store, run, warned, edits, runs, faults, q, actor, call>>

\* event_rx.recv().await returns None: the channel is closed and empty; break
RecvNone ==
    /\ w.pc = "recv"
    /\ w.queue = 0
    /\ w.closed
    /\ w' = [w EXCEPT !.pc = "stopped"]
    /\ UNCHANGED <<fs, perm, store, run, warned, edits, runs, faults, q, actor, call>>

\* the runner whose runs are the refreshes the consumer loop calls
WatcherRun == 1

\* a loop that hands the refresh to a spawned task and goes back to recv
Debounced_spawn ==
    /\ w.pc = "sleep"
    /\ w' = [w EXCEPT !.queue = 0, !.pc = "recv", !.served = w.sent,
                      !.inflight = @ + 1, !.started = @ + 1]
    /\ run' = IF \E r \in Runners : ~Active(r)
              THEN LET r == CHOOSE x \in Runners : ~Active(x) /\ \A y \in Runners : ~Active(y) => x <= y
                   IN [run EXCEPT ![r] = Started(r, FALSE)]
              ELSE run
    /\ warned' = {}
    /\ runs' = runs + 1
    /\ UNCHANGED <<fs, perm, store, edits, faults, q, actor, call>>

\* a loop that refreshes after the sleep without emptying the channel
Debounced_nodrain ==
    /\ w.pc = "sleep"
    /\ w' = [w EXCEPT !.pc = "refresh", !.served = w.sent,
                      !.inflight = @ + 1, !.started = @ + 1]
    /\ run' = [run EXCEPT ![WatcherRun] = Started(WatcherRun, FALSE)]
    /\ warned' = {}
    /\ runs' = runs + 1
    /\ UNCHANGED <<fs, perm, store, edits, faults, q, actor, call>>

\* the sleep is over: `while event_rx.try_recv().is_ok() {}` empties the
\* channel and indexer::refresh is called
Debounced ==
    /\ w.pc = "sleep"
    /\ w' = [w EXCEPT !.queue = 0, !.pc = "refresh", !.served = w.sent,
                      !.inflight = @ + 1, !.started = @ + 1]
    /\ run' = [run EXCEPT ![WatcherRun] = Started(WatcherRun, FALSE)]
    /\ warned' = {}
    /\ runs' = runs + 1
    /\ UNCHANGED <<fs, perm, store, edits, faults, q, actor, call>>

\* the refresh of the loop has returned Ok or Err
Returned(rn) == rn.pc \in {"done", "failed"}

\* a loop that ends when the refresh returns Err
RefreshReturns_breaks ==
    /\ w.pc = "refresh"
    /\ Returned(run[WatcherRun])
    /\ w' = [w EXCEPT !.inflight = @ - 1,
                      !.pc = IF run[WatcherRun].pc = "done" THEN "recv" ELSE "stopped",
                      !.warnings = IF run[WatcherRun].pc = "done" THEN @ ELSE @ + 1]
    /\ UNCHANGED <<fs, perm, store, run, warned, edits, runs, faults, q, actor, call>>

\* indexer::refresh(..).await returns; an Err is logged as an error; the loop
\* goes back to recv either way
RefreshReturns ==
    /\ w.pc = "refresh"
    /\ Returned(run[WatcherRun])
    /\ w' = [w EXCEPT !.inflight = @ - 1, !.pc = "recv",
                      !.warnings = IF run[WatcherRun].pc = "done" THEN @ ELSE @ + 1]
    /\ UNCHANGED <<fs, perm, store, run, warned, edits, runs, faults, q, actor, call>>

NextWatch ==
    \/ \E kind \in EventKinds : NotifyEvent(kind)
    \/ DropWatcher
    \/ Recv
    \/ RecvNone
    \/ Debounced
    \/ RefreshStep(WatcherRun)
    \/ RefreshReturns

\* The watcher's callback and consumer loop, and the steps of the refresh the
\* loop awaits, which creates the table and writes to it.
SpecWatch == InitDaemon /\ [][NextWatch]_vars

\* The spawned task is polled by the runtime whenever it can make progress: a
\* recv with an event in the channel (or with the channel closed) returns, the
\* debounce sleep ends, every await of the refresh returns, and the loop goes
\* on when the refresh has returned.
FairWatch ==
    /\ WF_vars(Recv)
    /\ WF_vars(RecvNone)
    /\ WF_vars(Debounced)
    /\ WF_vars(RefreshStep(WatcherRun))
    /\ WF_vars(RefreshReturns)

SpecWatchLive == SpecWatch /\ FairWatch

\* ---------------------------------------------------------------- embedder actor

\* mpsc::channel::<EmbedRequest>(32)
Capacity == 32

\* the number of requests of a modelled execution, and of embed_query errors
MaxRequests == 35
MaxEmbedErrors == 1

\* requests in the queue; it is gone with the receiver when the worker unwinds
Queued ==
    IF actor.pc = "panicked" THEN 0 ELSE actor.accepted - actor.taken - actor.dropped

\* requests that called embed_tx.send
Arrived == actor.blocked + actor.accepted + actor.rejected

\* requests whose handler is still in prepare: blocked in send, or awaiting reply_rx
Waiting == actor.blocked + (actor.accepted - actor.answered - actor.dropped)

\* requests whose prepare has returned: a reply arrived, the reply channel was
\* closed, or the send failed
Resolved == actor.answered + actor.dropped + actor.rejected

\* requests for which prepare returned InternalServerError: the send failed,
\* the reply was Err(e), or the reply channel was closed
InternalServerErrors == actor.rejected + actor.errors + actor.dropped

\* the receiver is alive: the worker has not returned
Receiving == actor.pc \in {"load", "recv", "embed"}

UnchangedByActor ==
    UNCHANGED <<fs, perm, store, run, warned, edits, runs, faults, q, w, call>>

\* prepare: state.embed_tx.send((query, reply_tx)).await.  The send fails when
\* the receiver is gone, completes at once when the queue has room and nobody
\* waits for it, and waits otherwise.
Send ==
    /\ actor.senders
    /\ Arrived < MaxRequests
    /\ actor' = IF ~Receiving THEN [actor EXCEPT !.rejected = @ + 1]
                ELSE IF Queued < Capacity /\ actor.blocked = 0
                     THEN [actor EXCEPT !.accepted = @ + 1]
                     ELSE [actor EXCEPT !.blocked = @ + 1]
    /\ UnchangedByActor

\* a waiting send gets the permit the worker released: its request is queued
Admit ==
    /\ Receiving
    /\ actor.blocked > 0
    /\ Queued < Capacity
    /\ actor' = [actor EXCEPT !.blocked = @ - 1, !.accepted = @ + 1]
    /\ UnchangedByActor

\* NomicEmbedder::load() returned Ok: the worker builds its runtime (a
\* current-thread runtime without I/O or time driver, whose build() opens
\* nothing that can fail) and enters its recv loop
ModelLoaded ==
    /\ actor.pc = "load"
    /\ actor' = [actor EXCEPT !.pc = "recv"]
    /\ UnchangedByActor

\* a worker that keeps the receiver and the queued requests when the load fails
ModelLoadFails_keeps ==
    /\ actor.pc = "load"
    /\ actor' = [actor EXCEPT !.pc = "exited"]
    /\ UnchangedByActor

\* NomicEmbedder::load() returned Err: the thread returns and drops rx, which
\* closes the channel, drops the queued requests with their reply_tx, and makes
\* every waiting send fail
ModelLoadFails ==
    /\ actor.pc = "load"
    /\ actor' = [actor EXCEPT !.pc = "exited",
                              !.dropped = @ + Queued,
                              !.rejected = @ + actor.blocked,
                              !.blocked = 0]
    /\ UnchangedByActor

\* rx.recv().await returns the oldest queued request
RecvRequest ==
    /\ actor.pc = "recv"
    /\ Queued > 0
    /\ actor' = [actor EXCEPT !.pc = "embed", !.taken = @ + 1]
    /\ UnchangedByActor

\* embedder.embed_query(&query) returns and reply_tx.send(result) delivers it
Reply(ok) ==
    /\ actor.pc = "embed"
    /\ ~ok => actor.errors < MaxEmbedErrors
    /\ actor' = [actor EXCEPT !.pc = "recv", !.answered = @ + 1,
                              !.errors = IF ok THEN @ ELSE @ + 1]
    /\ UnchangedByActor

\* embedder.embed_query(&query) unwinds: tokenize panics when tok.encode returns
\* Err (`.expect("tokenize failed")`).  The worker thread ends inside the loop:
\* rx and the reply_tx of the request it was serving are dropped, which closes
\* the reply channel of that request and of every queued one and makes every
\* waiting send fail
EmbedPanics ==
    /\ actor.pc = "embed"
    /\ actor' = [actor EXCEPT !.pc = "panicked",
                              !.dropped = @ + Queued + 1,
                              !.rejected = @ + actor.blocked,
                              !.blocked = 0]
    /\ UnchangedByActor

\* the last clone of embed_tx is dropped; no send is waiting then
DropSenders ==
    /\ actor.senders
    /\ actor.blocked = 0
    /\ actor' = [actor EXCEPT !.senders = FALSE]
    /\ UnchangedByActor

\* rx.recv().await returns None: the channel is closed and empty; the loop and
\* the worker thread end
Stop ==
    /\ actor.pc = "recv"
    /\ Queued = 0
    /\ ~actor.senders
    /\ actor' = [actor EXCEPT !.pc = "stopped"]
    /\ UnchangedByActor

NextActor ==
    \/ Send
    \/ Admit
    \/ ModelLoaded
    \/ ModelLoadFails
    \/ RecvRequest
    \/ \E ok \in BOOLEAN : Reply(ok)
    \/ EmbedPanics
    \/ DropSenders
    \/ Stop

\* The embedder actor and the prepare calls of the handlers that use it.
SpecActor == Init /\ [][NextActor]_vars

\* The same, with a model load that returns, an embed_query that returns or
\* unwinds, and a channel that wakes its waiting senders and its receiver.
FairActor ==
    /\ WF_vars(ModelLoaded \/ ModelLoadFails)
    /\ WF_vars(Admit)
    /\ WF_vars(RecvRequest)
    /\ WF_vars((\E ok \in BOOLEAN : Reply(ok)) \/ EmbedPanics)
    /\ WF_vars(Stop)

SpecActorLive == SpecActor /\ FairActor

\* ---------------------------------------------------------------- parse_file calls

\* the number of top-level items of a generated file, and the lines of its
\* longest declaration
MaxItems == 3
MaxNodeLines == 5

Languages ==
    {"rust", "python", "javascript", "typescript", "tsx", "java", "csharp", "go",
     "scala", "haskell", "ruby", "fsharp"}

\* a declaration of the language that is_summary_kind accepts
DeclKind(lang) ==
    CASE lang = "rust" -> "function_item"
      [] lang \in {"python", "scala"} -> "function_definition"
      [] lang \in {"javascript", "typescript", "tsx", "go"} -> "function_declaration"
      [] lang \in {"java", "csharp"} -> "method_declaration"
      [] lang = "haskell" -> "function"
      [] lang = "ruby" -> "method"
      [] OTHER -> "value_declaration"

\* the language whose grammar parse_file takes for the path, "" when it has none
Grammar(path) ==
    CASE Extension(path) = "rs" -> "rust"
      [] Extension(path) = "py" -> "python"
      [] Extension(path) = "go" -> "go"
      [] Extension(path) = "js" -> "javascript"
      [] OTHER -> ""

\* the items a generated file is made of, each on lines of its own: a
\* function of `lines` lines, a function behind the keyword `export`
\* (JavaScript), a documentation comment, a comment that is not documentation
\* (in Python and Go the two comments look the same)
SourceItems ==
    [kind : {"fn"}, lines : 1..MaxNodeLines]
        \cup [kind : {"doc", "plain", "export"}, lines : {1}]

ItemLists == UNION {[1..n -> SourceItems] : n \in 0..MaxItems}

\* the line endings of a generated file
LineEndings == {"\n", "\r\n"}

\* what the parser answers for a generated file: a tree, Err from
\* set_language, or None from parse
ParserAnswers == {"tree", "set_language_err", "parse_none"}

\* the name of the function, and the text of the comment, at position i
FnName(i) == "f" \o ToString(i)
DocBody(i) == "D" \o ToString(i)

\* the kind and the opener of the comment of an item
ItemComment(lang, kind) ==
    CASE lang = "python" -> <<"comment", "#">>
      [] lang = "go" -> <<"comment", "//">>
      [] lang = "javascript" -> IF kind = "doc" THEN <<"comment", "/**">>
                               ELSE <<"comment", "//">>
      [] OTHER -> IF kind = "doc" THEN <<"line_comment", "///">>
                  ELSE <<"line_comment", "//">>

\* the source lines of a function of n lines
FnText(lang, name, n) ==
    CASE lang = "python" ->
            IF n = 1 THEN <<"def " \o name \o "(): pass">>
            ELSE <<"def " \o name \o "():">> \o [k \in 1..(n - 1) |-> "  pass"]
      [] lang = "go" ->
            IF n = 1 THEN <<"func " \o name \o "() {}">>
            ELSE <<"func " \o name \o "() {">> \o [k \in 1..(n - 2) |-> "  _ = 1"]
                 \o <<"}">>
      [] lang = "javascript" ->
            IF n = 1 THEN <<"function " \o name \o "() {}">>
            ELSE <<"function " \o name \o "() {">> \o [k \in 1..(n - 2) |-> "  1;"]
                 \o <<"}">>
      [] OTHER ->
            IF n = 1 THEN <<"fn " \o name \o "() {}">>
            ELSE <<"fn " \o name \o "() {">> \o [k \in 1..(n - 2) |-> "  1;"] \o <<"}">>

\* what Parser::parse returns for the item at position i
RECURSIVE ItemRow(_, _)
ItemRow(items, i) ==
    IF i = 1 THEN 0 ELSE ItemRow(items, i - 1) + items[i - 1].lines

FnNode(lang, name, row, lines, eol) ==
    TsNode(DeclKind(lang), row, row + lines - 1, name,
           JoinWith(FnText(lang, name, lines), eol), <<>>)

\* `export function f() {}`: an export_statement whose children are the
\* keyword and the declaration
ExportNode(lang, name, row) ==
    TsNode("export_statement", row, row, "", "export " \o FnText(lang, name, 1)[1],
           <<TsToken("export", row), FnNode(lang, name, row, 1, "")>>)

ItemNode(lang, items, i, eol) ==
    LET item == items[i]
        row == ItemRow(items, i)
    IN CASE item.kind = "fn" -> FnNode(lang, FnName(i), row, item.lines, eol)
         [] item.kind = "export" -> ExportNode(lang, FnName(i), row)
         [] OTHER -> TsComment(ItemComment(lang, item.kind)[1], row,
                               ItemComment(lang, item.kind)[2], DocBody(i))

ItemNodes(lang, items, eol) == [i \in 1..Len(items) |-> ItemNode(lang, items, i, eol)]

\* the text of the file: the items, each followed by a line ending
SourceText(nodes, eol) ==
    LET F[i \in 0..Len(nodes)] ==
            IF i = 0 THEN "" ELSE F[i - 1] \o nodes[i].text \o eol
    IN F[Len(nodes)]

\* the number of lines of the file made of `items`
SourceLines(items) == ItemRow(items, Len(items) + 1)

\* the decoded file made of `items` in the language of `path`, with the
\* answers of the parser; a path without grammar gets the Rust text, which
\* parse_file does not look at
Source(path, items, eol, answer) ==
    LET lang == IF Grammar(path) = "" THEN "rust" ELSE Grammar(path)
        nodes == ItemNodes(lang, items, eol)
        text == SourceText(nodes, eol)
        root == TsNode(IF lang = "python" THEN "module" ELSE "source_file", 0,
                       SourceLines(items), "", text, nodes)
    IN [utf8 |-> TRUE, text |-> text,
        set_language |-> answer # "set_language_err",
        tree |-> IF answer = "tree" THEN Some(root) ELSE None]

ParsePaths == {"/t/a.rs", "/t/m.py", "/t/m.go", "/t/m.js", "/t/notes.txt", "/t/Makefile"}

\* the generated files of a path: the longest lists for the Rust grammar, lists
\* one item shorter for the other paths; `export` in JavaScript files only
ItemListsOf(path) ==
    {items \in ItemLists :
        /\ Grammar(path) # "rust" => Len(items) < MaxItems
        /\ Grammar(path) # "javascript" => \A i \in DOMAIN items : items[i].kind # "export"}

\* the state in which a pure function has been called with `args`
Called(fn, args) == [fn |-> fn, args |-> args, result |-> <<>>, returned |-> FALSE]

\* the state of everything a call of a pure function does not touch
Untouched ==
    /\ q = IdleQuery
    /\ w = IdleWatcher
    /\ actor = IdleActor
    /\ fs = InitTree
    /\ perm = [f \in Files |-> TRUE]
    /\ store = NoTable
    /\ run = [r \in Runners |-> IdleRun]
    /\ warned = {}
    /\ edits = 0
    /\ runs = 0
    /\ faults = 0

UnchangedByCall ==
    UNCHANGED <<fs, perm, store, run, warned, edits, runs, faults, q, w, actor>>

InitParse ==
    /\ Untouched
    /\ \E path \in ParsePaths, max_chunk_lines \in 1..MaxChunkLines :
          \E items \in ItemListsOf(path), eol \in LineEndings, answer \in ParserAnswers :
              call = Called("parse_file", <<path, items, max_chunk_lines, eol, answer>>)

\* the file of the call
CallSource == Source(call.args[1], call.args[2], call.args[4], call.args[5])

\* parse_file(path, content, max_chunk_lines) returns
ParseFile ==
    /\ call.fn = "parse_file"
    /\ ~call.returned
    /\ call' = [call EXCEPT !.returned = TRUE,
                            !.result = parse_file(call.args[1], CallSource, call.args[3])]
    /\ UnchangedByCall

NextParse == ParseFile

\* Calls of parse_file on generated files, with a positive max_chunk_lines.
SpecParse == InitParse /\ [][NextParse]_vars

\* ---------------------------------------------------------------- split_by_lines calls

\* the number of lines of the content handed to split_by_lines
MaxLines == 5

\* the line of the file the content starts at
MaxStartOffset == 2

\* the number of chunks the Vec can grow to before its allocation fails; every
\* list the loop returns for MaxLines lines fits
MaxPushed == MaxLines + 1

\* u32::MAX, the value `0 - 1` wraps to, written as the signed reading of its
\* 32 bits (the integers of the model checker are 32 bits wide)
U32_MAX == 0 - 1

\* One call of split_by_lines, step by step.  args: the number of lines of
\* content, start_offset, max_lines.  pc: "entry" at the top of the function,
\* "loop" at the test of the while loop, "returned", "panicked" (the build
\* checks arithmetic overflow), "aborted" (the allocation of chunks failed).
\* result: the <<start_line, end_line>> of the chunks pushed so far.
SplitCalled(n, start_offset, max_lines) ==
    [fn |-> "split_by_lines", args |-> <<n, start_offset, max_lines>>,
     result |-> <<>>, returned |-> FALSE, pc |-> "entry", offset |-> 0]

\* parse_with_grammar hands over the whole file (start_offset 0),
\* collect_chunks a node that has more than max_chunk_lines lines;
\* max_chunk_lines is any usize the configuration file holds
InitSplit ==
    /\ Untouched
    /\ call \in {SplitCalled(n, start_offset, max_lines) :
                    n \in 0..MaxLines, start_offset \in 0..MaxStartOffset,
                    max_lines \in 0..MaxChunkLines}

\* `if lines.is_empty() { return vec![]; }`
SplitEmpty ==
    /\ call.fn = "split_by_lines" /\ call.pc = "entry"
    /\ call.args[1] = 0
    /\ call' = [call EXCEPT !.pc = "returned", !.returned = TRUE]
    /\ UnchangedByCall

\* the function goes on to the loop with offset = 0
SplitEnter ==
    /\ call.fn = "split_by_lines" /\ call.pc = "entry"
    /\ call.args[1] > 0
    /\ call' = [call EXCEPT !.pc = "loop"]
    /\ UnchangedByCall

\* one pass of the body of `while offset < lines.len()`: push the chunk of
\* lines[offset..end], then `offset += max_lines`; in a build without overflow
\* checks `start_offset + end as u32 - 1` wraps
SplitIterate ==
    /\ call.fn = "split_by_lines" /\ call.pc = "loop"
    /\ call.offset < call.args[1]
    /\ Len(call.result) < MaxPushed
    /\ LET end == Min(call.offset + call.args[3], call.args[1])
           start_line == call.args[2] + call.offset
           end_line == IF call.args[2] + end = 0 THEN U32_MAX
                       ELSE call.args[2] + end - 1
       IN call' = [call EXCEPT !.result = Append(@, <<start_line, end_line>>),
                               !.offset = @ + call.args[3]]
    /\ UnchangedByCall

\* in a build with overflow checks `start_offset + end as u32 - 1` panics when
\* start_offset + end is 0
SplitPanic ==
    /\ call.fn = "split_by_lines" /\ call.pc = "loop"
    /\ call.offset < call.args[1]
    /\ call.args[2] + Min(call.offset + call.args[3], call.args[1]) = 0
    /\ call' = [call EXCEPT !.pc = "panicked"]
    /\ UnchangedByCall

\* chunks.push cannot allocate: the process is aborted
SplitAbort ==
    /\ call.fn = "split_by_lines" /\ call.pc = "loop"
    /\ call.offset < call.args[1]
    /\ Len(call.result) >= MaxPushed
    /\ call' = [call EXCEPT !.pc = "aborted"]
    /\ UnchangedByCall

\* the loop test fails: `chunks` is returned
SplitReturn ==
    /\ call.fn = "split_by_lines" /\ call.pc = "loop"
    /\ call.offset >= call.args[1]
    /\ call' = [call EXCEPT !.pc = "returned", !.returned = TRUE]
    /\ UnchangedByCall

NextSplit ==
    \/ SplitEmpty
    \/ SplitEnter
    \/ SplitIterate
    \/ SplitPanic
    \/ SplitAbort
    \/ SplitReturn

\* Calls of split_by_lines, one loop iteration per step.
SpecSplit == InitSplit /\ [][NextSplit]_vars

\* the calling thread keeps running
FairSplit == WF_vars(NextSplit)

SpecSplitLive == SpecSplit /\ FairSplit

\* ---------------------------------------------------------------- extract_comment calls

\* the number of siblings before the declaration, and before its parent
MaxSiblings == 3
MaxUncles == 1

\* the comments of the language as the grammar reports them: node kind, the
\* opener the comment text begins with and, when the comment is not one line
\* `opener words closer`, its layout: "star" is a block comment of three
\* lines whose middle line starts with `*`, "xml" a C# line with the words
\* inside a <summary> element, "tag" a C# line that holds only a tag, "ws" a
\* comment with a line tabulation before its words and a form feed after
\* them
CommentShapes(lang) ==
    CASE lang \in {"rust", "fsharp"} ->
            {<<"line_comment", "///">>, <<"line_comment", "//">>,
             <<"block_comment", "/**">>, <<"block_comment", "/*">>,
             <<"block_comment", "/**", "star">>, <<"line_comment", "///", "ws">>}
      [] lang = "java" ->
            {<<"line_comment", "//">>, <<"block_comment", "/**">>, <<"block_comment", "/*">>,
             <<"block_comment", "/**", "star">>, <<"block_comment", "/**", "ws">>}
      [] lang = "scala" ->
            {<<"comment", "//">>, <<"block_comment", "/**">>, <<"block_comment", "/*">>,
             <<"block_comment", "/**", "star">>, <<"block_comment", "/**", "ws">>}
      [] lang = "csharp" ->
            {<<"comment", "///">>, <<"comment", "//">>, <<"comment", "/**">>,
             <<"comment", "///", "xml">>, <<"comment", "///", "tag">>,
             <<"comment", "///", "ws">>}
      [] lang \in {"javascript", "typescript", "tsx"} ->
            {<<"comment", "//">>, <<"comment", "/**">>, <<"comment", "/*">>,
             <<"comment", "/**", "star">>, <<"comment", "/**", "ws">>}
      [] lang = "haskell" ->
            {<<"haddock", "-- |">>, <<"comment", "--">>,
             <<"block_comment", "{-|">>, <<"block_comment", "{-">>,
             <<"haddock", "-- |", "ws">>}
      [] lang = "go" -> {<<"comment", "//">>, <<"comment", "///">>}
      [] OTHER -> {<<"comment", "#">>}

\* a documentation comment of the language without text after its opener
EmptyDocShape(lang) ==
    CASE lang \in {"rust", "fsharp"} -> <<"line_comment", "///", "">>
      [] lang = "csharp" -> <<"comment", "///", "">>
      [] lang = "java" -> <<"block_comment", "/**", "">>
      [] lang = "scala" -> <<"block_comment", "/**", "">>
      [] lang \in {"javascript", "typescript", "tsx"} -> <<"comment", "/**", "">>
      [] lang = "haskell" -> <<"haddock", "-- |", "">>
      [] lang = "go" -> <<"comment", "//", "">>
      [] OTHER -> <<"comment", "#", "">>

\* an anonymous node among the siblings: the brace that opens a body
TokenShape == <<"{", "", "token">>

\* the siblings a declaration can have before it: comments, other
\* declarations, anonymous nodes, and for Haskell type signatures
SiblingShapes(lang) ==
    CommentShapes(lang) \cup {EmptyDocShape(lang), TokenShape} \cup {<<DeclKind(lang), "">>}
        \cup (IF lang = "haskell" THEN {<<"signature", "">>} ELSE {})

ShapeLists(lang, n) == UNION {[1..k -> SiblingShapes(lang)] : k \in 0..n}

\* the node at position i with the given shape; a comment's text names its position
ShapeNode(shape, i) ==
    IF shape = TokenShape
    THEN TsToken(shape[1], i - 1)
    ELSE IF shape[2] = ""
    THEN TsNode(shape[1], i - 1, i - 1, FnName(i), FnName(i), <<>>)
    ELSE IF Len(shape) = 2
    THEN TsComment(shape[1], i - 1, shape[2], DocBody(i))
    ELSE CASE shape[3] = "star" ->
                 TsCommentText(shape[1], i - 1, shape[2],
                               shape[2] \o "\n * " \o DocBody(i) \o "\n */", DocBody(i))
           [] shape[3] = "xml" ->
                 TsCommentText(shape[1], i - 1, shape[2],
                               "/// <summary>" \o DocBody(i) \o "</summary>", DocBody(i))
           [] shape[3] = "tag" ->
                 TsCommentText(shape[1], i - 1, shape[2], "/// <summary>", "")
           [] shape[3] = "ws" ->
                 TsCommentText(shape[1], i - 1, shape[2],
                               shape[2] \o LineTabulation \o DocBody(i) \o "\f"
                                   \o Closer(shape[2]),
                               DocBody(i))
           [] OTHER -> TsComment(shape[1], i - 1, shape[2], "")

\* the siblings: the nodes of `shapes`, then the declaration itself
Siblings(lang, shapes, docstring) ==
    [i \in 1..Len(shapes) |-> ShapeNode(shapes[i], i)]
        \o <<[TsNode(DeclKind(lang), Len(shapes), Len(shapes), "decl", "decl", <<>>)
                 EXCEPT !.docstring = docstring]>>

\* the nodes before a `declarations` block: any one node, or a longer run of
\* Haddock comments, plain comments and anonymous nodes
UncleShapes == {<<"haddock", "-- |">>, <<"comment", "--">>, TokenShape}

UncleLists(lang, n) ==
    ShapeLists(lang, 1) \cup UNION {[1..k -> UncleShapes] : k \in 2..n}

\* the parents a declaration can have: the root, or for Haskell a
\* `declarations` block with siblings of its own
Parents(lang) ==
    {[kind |-> "root", prev |-> <<>>]} \cup
    (IF lang = "haskell"
     THEN {[kind |-> "declarations",
            prev |-> [i \in 1..Len(shapes) |-> ShapeNode(shapes[i], i)]] :
               shapes \in UncleLists(lang, MaxUncles)}
     ELSE {})

InitComment ==
    /\ Untouched
    /\ \E lang \in Languages :
          call \in {Called("extract_comment",
                           <<lang, Siblings(lang, shapes, docstring), above>>) :
                       shapes \in ShapeLists(lang, MaxSiblings),
                       docstring \in IF lang = "python"
                                     THEN {None, Some(""), Some("S")} ELSE {None},
                       above \in Parents(lang)}

\* extract_comment(node, content, lang) returns
ExtractComment ==
    /\ call.fn = "extract_comment"
    /\ ~call.returned
    /\ call' = [call EXCEPT !.returned = TRUE,
                            !.result = extract_comment(call.args[2], Len(call.args[2]),
                                                       call.args[1], call.args[3])]
    /\ UnchangedByCall

NextComment == ExtractComment

\* Calls of extract_comment on a declaration after generated siblings.
SpecComment == InitComment /\ [][NextComment]_vars

\* ---------------------------------------------------------------- collect_files calls

\* the number of globs of an include or exclude list
MaxGlobs == 1

\* A glob: its text, whether Pattern::new accepts it, and the modelled relative
\* paths and directory probes Pattern::matches accepts (default MatchOptions:
\* `*` also matches `/` and a leading dot).  "***" is rejected by Pattern::new.
Glob(text, valid, matches) == [text |-> text, valid |-> valid, matches |-> matches]

Globs ==
    {Glob("**/*.rs", TRUE, {"a.rs", ".env.rs", "src/b.rs", ".git/d.rs", "target/e.rs",
                            "src/.cache/f.rs"}),
     Glob("target/**", TRUE, {"target/e.rs", "target/x"}),
     Glob("src/**", TRUE, {"src/b.rs", "src/c.txt", "src/.cache/f.rs", "src/x",
                           "src/.cache/x"}),
     Glob("*.txt", TRUE, {"src/c.txt"}),
     Glob("***", FALSE, {})}

GlobLists == {gs \in SUBSET Globs : Cardinality(gs) <= MaxGlobs}

\* A directory entry: its path relative to root and its file name as first
\* character and rest
DirEntry(rel, first, rest) == [rel |-> rel, first |-> first, rest |-> rest]

\* the roots: "/t" and "."; WalkDir reports "." as the file name of the root "."
Roots == {DirEntry("", "t", ""), DirEntry("", ".", "")}

\* A file entry: its relative path, the directories between root and it, and
\* its extension
FileEntry(rel, dirs, ext) == [rel |-> rel, dirs |-> dirs, ext |-> ext]

WalkTree ==
    {FileEntry("a.rs", <<>>, "rs"),
     FileEntry(".env.rs", <<>>, "rs"),
     FileEntry("src/b.rs", <<DirEntry("src", "s", "rc")>>, "rs"),
     FileEntry("src/c.txt", <<DirEntry("src", "s", "rc")>>, "txt"),
     FileEntry(".git/d.rs", <<DirEntry(".git", ".", "git")>>, "rs"),
     FileEntry("target/e.rs", <<DirEntry("target", "t", "arget")>>, "rs"),
     FileEntry("src/.cache/f.rs",
               <<DirEntry("src", "s", "rc"), DirEntry("src/.cache", ".", "cache")>>, "rs")}

ExtLists == {{}, {"rs"}, {"rs", "txt"}}

\* Pattern::new(g).ok() over a list
patterns(globs) == {g \in globs : g.valid}

\* format!("{}/x", rel)
probe(dir) == dir.rel \o "/x"

\* the filter_entry closure on a directory: FALSE prunes it
filter_entry(dir, exclude_patterns) ==
    /\ dir.first # "."
    /\ ~\E pat \in exclude_patterns : probe(dir) \in pat.matches

\* the last filter_map closure on a file: TRUE keeps it
keep_file(file, include_patterns, exclude_patterns, default_exts) ==
    /\ \A pat \in exclude_patterns : file.rel \notin pat.matches
    /\ IF include_patterns # {}
       THEN \E pat \in include_patterns : file.rel \in pat.matches
       ELSE file.ext \in default_exts

\* collect_files on the tree `files` under `root`; the result as relative paths
collect_files_in(root, files, include, exclude, default_exts) ==
    LET include_patterns == patterns(include)
        exclude_patterns == patterns(exclude)
        walked == {f \in files :
                      /\ filter_entry(root, exclude_patterns)
                      /\ \A i \in DOMAIN f.dirs : filter_entry(f.dirs[i], exclude_patterns)}
    IN {f.rel : f \in {g \in walked : keep_file(g, include_patterns, exclude_patterns,
                                                default_exts)}}

InitWalk ==
    /\ Untouched
    /\ call \in {Called("collect_files", <<root, include, exclude, default_exts>>) :
                    root \in Roots, include \in GlobLists, exclude \in GlobLists,
                    default_exts \in ExtLists}

\* collect_files(root, include, exclude, default_exts) returns
CollectFiles ==
    /\ call.fn = "collect_files"
    /\ ~call.returned
    /\ call' = [call EXCEPT !.returned = TRUE,
                            !.result = collect_files_in(call.args[1], WalkTree, call.args[2],
                                                        call.args[3], call.args[4])]
    /\ UnchangedByCall

NextWalk == CollectFiles

\* Calls of collect_files on one tree with generated include and exclude lists.
SpecWalk == InitWalk /\ [][NextWalk]_vars

\* ---------------------------------------------------------------- properties: shared definitions

R == run[1]

RelOf(f) == RelPaths[f]

\* file f with bytes k yields at least one chunk
YieldsChunks(f, k) == k # Absent /\ Content(k).utf8 /\ ChunksOf(f, k) # <<>>

\* the rows of f when every embed call succeeds
FullRecords(f, k) == Records(RelOf(f), compute_hash(k), ChunksOf(f, k), {}, {})

\* the run made no delete_file, no insert and no embed call
NoWrites(rn) ==
    /\ \A e \in rn.log :
           /\ "delete_file" \notin Range(e.ops)
           /\ "insert" \notin Range(e.ops)
           /\ e.embeds = 0
    /\ "delete_file" \notin Range(rn.ops)
    /\ "insert" \notin Range(rn.ops)
    /\ rn.embeds = 0

\* the run has returned; no process has modified the tree since the run walked
\* it, nor cleared the table since the run was called, and since it was called
\* no call has failed for a reason that lies outside the program (the
\* database, the model, an embed call)
Quiet(rn) ==
    /\ Returned(rn)
    /\ ~rn.tainted /\ ~rn.cleared
    /\ rn.tree = fs /\ rn.perms = perm
    /\ faults = rn.faults0

\* a run without reindex has returned, and the run before it was a run without
\* reindex that had returned; no call of either has failed for a reason that
\* lies outside the program
SecondRun ==
    /\ Returned(R) /\ ~R.reindex
    /\ Returned(R.prev) /\ ~R.prev.reindex
    /\ faults = R.prev.faults0

\* the files that differ from what the first run walked
Changed == {f \in Files : R.prev.tree[f] # fs[f] \/ R.prev.perms[f] # perm[f]}

\* ---------------------------------------------------------------- C1

\* C1: a second index run with no file change since the first was called
\* returns indexed = 0 and skipped = (number of walked files), makes no
\* delete_file, insert or embed call, and leaves the table as the first run
\* left it.
C1_Idempotent ==
    (SecondRun /\ edits = R.prev.edits0) =>
        /\ R.pc = "done"
        /\ R.indexed = 0
        /\ R.skipped = Cardinality(R.walked)
        /\ NoWrites(R)
        /\ store = R.store0

\* ---------------------------------------------------------------- C2

\* exactly one file, m, was modified between the two runs: the first run
\* walked it, it exists now with other bytes, and nothing else changed
ModifiedOnly(m) ==
    /\ SecondRun
    /\ edits = R.prev.edits0 + 1 /\ R.edits0 = edits
    /\ Changed = {m}
    /\ m \in R.prev.walked
    /\ fs[m] # Absent
    /\ R.prev.perms[m] = perm[m]

\* Ok with indexed = 1 and skipped = N - 1, the rows of m are those of its new
\* bytes, the rows of every other file are unchanged, count_rows moved by
\* new_chunks - old_chunks
HashReconciled(m) ==
    /\ R.pc = "done"
    /\ R.indexed = 1
    /\ R.skipped = Cardinality(R.walked) - 1
    /\ TableOf(store, RelOf(m)) = SeqToBag(FullRecords(m, fs[m]))
    /\ \A f \in Files \ {m} :
           TableOf(store, RelOf(f)) = TableOf(R.store0, RelOf(f))
    /\ count_rows(store) - count_rows(R.store0)
         = Len(ChunksOf(m, fs[m])) - Len(ChunksOf(m, R.prev.tree[m]))

\* C2: after modifying exactly one indexed file, the next run returns
\* indexed = 1 and skipped = N - 1, replaces that file's rows and leaves the
\* rows of every other file unchanged.
C2_HashReconciliation == \A m \in Files : ModifiedOnly(m) => HashReconciled(m)

\* ---------------------------------------------------------------- C3

\* C3: in every reachable state all rows with one file_path carry one file_hash.
C3_OneHashPerFile ==
    \A r1, r2 \in Rows(store) :
        r1.file_path = r2.file_path => r1.file_hash = r2.file_hash

\* ---------------------------------------------------------------- C4

\* C4: in every reachable state no two rows of the table have the same id, and
\* neither have two records of the batch that index_files builds from the
\* chunk list of one file: no two chunks of a file start on the same line.
C4_UniqueIds ==
    /\ \A r1 \in Rows(store) : store.rows[r1] = 1
    /\ \A r1, r2 \in Rows(store) : r1.id = r2.id => r1 = r2
    /\ \A i, j \in DOMAIN R.records : R.records[i].id = R.records[j].id => i = j

\* ---------------------------------------------------------------- C5

\* the walked files that produce at least one record when no embed call fails
Producing(rn) == {f \in rn.walked : YieldsChunks(f, rn.tree[f])}

\* C5: after a refresh has returned on a tree that was not modified while it
\* ran (every walked file readable, no call failed for an outside reason), it
\* has returned Ok and the file_path values of the table are exactly the walked
\* files that produce a record.
C5_Reconciled ==
    (Quiet(R) /\ ~R.reindex /\ \A f \in R.walked : perm[f]) =>
        /\ R.pc = "done"
        /\ list_files(store) = {RelOf(f) : f \in Producing(R)}

\* ---------------------------------------------------------------- C6

\* row was built from a chunk of file f with bytes k and carries the hash of k
RowFrom(row, f, k) ==
    /\ k # Absent
    /\ Content(k).utf8
    /\ row.file_path = RelOf(f)
    /\ row.file_hash = compute_hash(k)
    /\ \E i \in DOMAIN ChunksOf(f, k) :
           LET c == ChunksOf(f, k)[i]
           IN /\ row.content = c.content
              /\ row.start_line = c.start_line
              /\ row.end_line = c.end_line
              /\ row.symbol = c.symbol
              /\ row.summary = c.summary
              /\ row.vector = embed(c.content)

\* C6: every row carries the hash of the bytes its chunk was produced from; and
\* once a refresh has returned on an unmodified tree (no call failed for an
\* outside reason), the rows of every readable walked file are those of its
\* current bytes, and a file that yields chunks has rows.
C6_HashOfBytesRead ==
    /\ \A row \in Rows(store) : \E f \in Files, k \in ContentKeys : RowFrom(row, f, k)
    /\ Quiet(R) =>
           \A f \in {x \in R.walked : perm[x]} :
               /\ \A row \in RowsOf(store, RelOf(f)) : RowFrom(row, f, fs[f])
               /\ YieldsChunks(f, fs[f]) => RowsOf(store, RelOf(f)) # {}

\* ---------------------------------------------------------------- C7

DeleteThenInsert(ops) ==
    \A i \in DOMAIN ops :
        ops[i] = "insert" => \E j \in 1..(i - 1) : ops[j] = "delete_file"

\* C7: in a non-reindex run, for a file whose stored hash differs from the
\* current hash, delete_file has completed before the insert starts, and no
\* insert happens without that delete.
C7_DeleteBeforeInsert ==
    ~R.reindex =>
        /\ \A e \in R.log :
               (e.stored # None /\ e.bytes # Unset /\ e.stored # Some(compute_hash(e.bytes))) =>
                   /\ DeleteThenInsert(e.ops)
                   /\ RowsOf(store, RelOf(e.path)) # {} =>
                          "insert" \in Range(e.ops)
        /\ (R.pc \in {"process", "insert"} /\ R.stored_hash # None
                                           /\ R.stored_hash # Some(R.current_hash)) =>
               /\ R.ops = <<"get_file_hash", "delete_file">>
               /\ RowsOf(store, rel_path(1)) = {}

\* ---------------------------------------------------------------- C8

\* C8: after a run with reindex completes, the table holds exactly the rows that
\* run inserted; no row from before the run is left.
C8_ReindexRebuilds ==
    (R.pc = "done" /\ R.reindex /\ ~R.cleared) => store.rows = R.inserted

\* ---------------------------------------------------------------- C9

Binary(e) == e.bytes # Unset /\ ~Content(e.bytes).utf8

Counted(rn, outcomes) == Cardinality({e \in rn.log : e.outcome \in outcomes})

\* C9: a walked file that is not valid UTF-8 is counted as skipped and nothing
\* is inserted for it; it is no reason for the run to return an error, and the
\* loop goes on to the files that remain.
C9_BinarySkipped ==
    /\ \A e \in R.log :
           Binary(e) =>
               /\ e.outcome = "binary"
               /\ e.records = 0 /\ e.embeds = 0
               /\ "insert" \notin Range(e.ops)
               /\ \A row \in DOMAIN R.inserted : row.file_path # RelOf(e.path)
    /\ R.skipped = Counted(R, {"unchanged", "binary", "empty"})
    /\ R.indexed = Counted(R, {"indexed"})
    /\ R.pc = "failed" =>
           /\ R.error \in {"open_or_create", "load", "join", "store", "insert"}
           /\ (R.file_bytes # Unset /\ ~Content(R.file_bytes).utf8) => R.error = "store"
    /\ R.pc = "done" => {e.path : e \in R.log} = R.walked
    /\ (R.pc = "process" /\ ~Content(R.file_bytes).utf8) => ENABLED SkipBinary(1)

\* a run skipped a binary file, went on to the other file and returned Ok
C9_Witness ==
    /\ R.pc = "done"
    /\ R.indexed = 1 /\ R.skipped = 1
    /\ \E e1, e2 \in R.log :
           /\ Binary(e1) /\ e1.outcome = "binary"
           /\ e2.outcome = "indexed" /\ e2.ops = <<"get_file_hash", "insert">>

\* ---------------------------------------------------------------- C10

Unreadable(rn) == {e \in rn.log : e.outcome = "unreadable"}

\* C10: a walked file that cannot be read gives a warning, counts in neither
\* counter and keeps its rows; a run that returns Ok has seen every walked file
\* once, and indexed + skipped = walked files - unreadable files.
C10_UnreadableNotCounted ==
    /\ \A e \in Unreadable(R) :
           /\ <<"could not read", e.path>> \in warned
           /\ e.ops = <<>>
           /\ ~R.cleared =>
                  \/ TableOf(store, RelOf(e.path)) = TableOf(R.store0, RelOf(e.path))
                  \/ R.reindex /\ RowsOf(store, RelOf(e.path)) = {}
    /\ R.indexed + R.skipped = Cardinality(R.log) - Cardinality(Unreadable(R))
    /\ \A e1, e2 \in R.log : e1.path = e2.path => e1 = e2
    /\ R.pc = "done" =>
           /\ {e.path : e \in R.log} = R.walked
           /\ R.indexed + R.skipped
                = Cardinality(R.walked) - Cardinality(Unreadable(R))

\* a run met an unreadable file, went on to the other file and returned Ok
C10_Witness ==
    /\ R.pc = "done"
    /\ R.indexed + R.skipped = 1
    /\ Cardinality(R.walked) = 2
    /\ \E e \in Unreadable(R) : ~perm[e.path]

\* ---------------------------------------------------------------- C11

\* the rows this run inserted for file_path, as a bag
InsertedOf(rn, file_path) ==
    [row \in {x \in DOMAIN rn.inserted : x.file_path = file_path} |-> rn.inserted[row]]

\* the batch of entry e, a file of these chunks, is the full batch of the file
\* less the chunks in failV
BatchLess(e, chunks, failV, failS) ==
    /\ Cardinality(failV) + Cardinality(failS) = e.failed
    /\ e.records = Len(chunks) - Cardinality(failV)
    /\ InsertedOf(R, RelOf(e.path))
         = SeqToBag(Records(RelOf(e.path), compute_hash(e.bytes), chunks, failV, failS))

\* the start lines of a batch are those of the surviving chunks, in chunk order
InChunkOrder(chunks, failV) ==
    LET batch == Records("p", "h", chunks, failV, {})
        kept == SelectIdx(chunks, DOMAIN chunks \ failV)
    IN /\ Len(batch) = Len(kept)
       /\ \A i \in DOMAIN batch :
              /\ batch[i].start_line = kept[i].start_line
              /\ batch[i].content = kept[i].content
       /\ \A i, j \in DOMAIN chunks :
              (i < j /\ i \notin failV /\ j \notin failV) =>
                  \E a, b \in DOMAIN batch :
                      /\ a < b
                      /\ batch[a].content = chunks[i].content
                      /\ batch[b].content = chunks[j].content

\* the batch of the file the run is at has lost a chunk to a failed embed call
\* and has kept another
LostChunk(rn) ==
    /\ rn.records # <<>>
    /\ Len(rn.records) < Len(ChunksOf(rn.path, rn.file_bytes))

\* C11: when embedding a chunk's content fails only that chunk is missing from
\* the inserted batch, the other chunks are inserted in chunk order, the file
\* counts as indexed even with no surviving record, and the run does not fail:
\* the insert of a batch that has lost a chunk does not return Err unless the
\* database fails.
C11_EmbedFailureDropsChunk ==
    /\ \A e \in R.log :
           e.outcome = "indexed" =>
               LET chunks == ChunksOf(e.path, e.bytes) IN
               /\ \E failV \in SUBSET DOMAIN chunks, failS \in SUBSET WithSummary(chunks) :
                      BatchLess(e, chunks, failV, failS)
               /\ \A failV \in SUBSET DOMAIN chunks : InChunkOrder(chunks, failV)
    /\ R.indexed = Cardinality({e \in R.log : e.outcome = "indexed"})
    /\ (R.pc = "failed" /\ R.error = "insert") => ~LostChunk(R)
    /\ \A msg \in warned : msg[1] = "embed failed" =>
           \/ \E e \in R.log : RelOf(e.path) = msg[2] /\ e.failed > 0
           \/ R.pc = "insert" /\ rel_path(1) = msg[2] /\ R.failed > 0
           \/ R.pc = "failed"

\* ---------------------------------------------------------------- C12

\* C12: every row of the table has a summary_vector if and only if it has a
\* summary, and a search on the summary column, when it returns rows, returns
\* none without a summary_vector.
C12_SummaryVectorIffSummary ==
    /\ \A row \in Rows(store) : (row.summary_vector # None) <=> (row.summary # None)
    /\ can_search(store, "summary_vector") =>
           \A x \in summary_candidates(store) : x[1].summary_vector # None

\* ---------------------------------------------------------------- C13

\* the batches index_files can pass to insert for the file it is processing
Batches ==
    {Records(rel_path(1), R.current_hash, Chunks(1), failV, failS) :
        failV \in SUBSET DOMAIN Chunks(1), failS \in SUBSET WithSummary(Chunks(1))}

\* the step in which insert returns: Ok and the table as it was for the empty
\* batch; else Err and the table as it was, or Ok and every record appended
InsertStep ==
    (R.pc = "insert" /\ run'[1].pc # "insert") =>
        /\ R.records \in Batches
        /\ R.records = <<>> => run'[1].pc = "read" /\ store' = store
        /\ run'[1].pc = "failed" => store' = store
        /\ run'[1].pc = "read" =>
               /\ store'.exists = store.exists
               /\ store'.rows = store.rows (+) SeqToBag(R.records)
               /\ count_rows(store') = count_rows(store) + Len(R.records)
               /\ run'[1].inserted = R.inserted (+) SeqToBag(R.records)

\* C13: insert of an empty list succeeds and leaves the table as it is; insert of
\* a non-empty list appends every record, or fails and leaves the table as it is.
C13_InsertAllOrNothing == [][InsertStep]_vars

\* insert has returned Ok for the empty batch of one file, and Err for the
\* batch of the next file, whose records are not in the table
C13_Witness ==
    /\ R.pc = "failed" /\ R.error = "insert"
    /\ R.records # <<>>
    /\ \A i \in DOMAIN R.records : R.records[i] \notin Rows(store)
    /\ \E e \in R.log : e.outcome = "indexed" /\ e.records = 0 /\ e.embeds > 0

\* ---------------------------------------------------------------- C14

\* a step of the handler of a find request
FindStep == q' # q /\ q'.kind = "find" /\ q.pc # "done"

\* C14: a find request only reads the database: no step of its handler, from
\* the arrival of the request to the response, creates a table or inserts or
\* deletes a row.
C14_FindReadsOnly == [][FindStep => store' = store]_vars

\* ---------------------------------------------------------------- C15

\* a query request was answered from the two result lists
Merged == q.pc = "done" /\ q.kind = "query" /\ q.status = 200

\* the 1-based position of id in results, 0 when it is not there
RankIn(results, id) ==
    IF \E i \in DOMAIN results : results[i].id = id
    THEN CHOOSE i \in DOMAIN results : results[i].id = id
    ELSE 0

\* score, a fraction over RrfScale, equals the sum of 1/(60 + rank) over the
\* 1-based ranks rc and rs, a rank of 0 contributing nothing
IsFused(score, rc, rs) ==
    score * (60 + rc) * (60 + rs)
        = RrfScale * ((IF rc > 0 THEN 60 + rs ELSE 0) + (IF rs > 0 THEN 60 + rc ELSE 0))

\* the 1-based positions of results that hold id
Positions(results, id) == {i \in DOMAIN results : results[i].id = id}

\* the sum of 1/(60 + rank) over the ranks in T, as a fraction over RrfScale
SumOfRanks(T) ==
    LET F[n \in 0..MaxLimit] ==
            IF n = 0 THEN 0
            ELSE F[n - 1] + (IF n \in T THEN RrfScale \div (60 + n) ELSE 0)
    IN F[MaxLimit]

\* the fused score of id: the sum over both lists of 1/(60 + rank), over every
\* rank at which the list holds id
FusedOf(id) ==
    SumOfRanks(Positions(q.content, id)) + SumOfRanks(Positions(q.summary, id))

\* id is at no more than one rank of each list
OnceInEach(id) ==
    /\ Cardinality(Positions(q.content, id)) <= 1
    /\ Cardinality(Positions(q.summary, id)) <= 1

\* C15: the score of every row rrf_merge returns is the sum over the two lists
\* of 1/(60 + rank), a list that holds the same id at several ranks (a row
\* stored twice) contributing for each of them; for an id at one rank of a
\* list, rank 1 in both lists gives 2/61 and rank r in one list only gives
\* 1/(60 + r).
C15_RrfLaw ==
    Merged =>
        \A i \in DOMAIN q.merged :
            LET row == q.merged[i]
                rc == RankIn(q.content, row.id)
                rs == RankIn(q.summary, row.id)
            IN /\ row.score = FusedOf(row.id)
               /\ OnceInEach(row.id) =>
                      /\ IsFused(row.score, rc, rs)
                      /\ (rc = 1 /\ rs = 1) => row.score * 61 = 2 * RrfScale
                      /\ (rc > 0 /\ rs = 0) => row.score * (60 + rc) = RrfScale
                      /\ (rc = 0 /\ rs > 0) => row.score * (60 + rs) = RrfScale

\* one returned row is first in both lists, another is in the content list only
C15_Witness ==
    /\ Merged
    /\ \E i, j \in DOMAIN q.merged :
           /\ RankIn(q.content, q.merged[i].id) = 1
           /\ RankIn(q.summary, q.merged[i].id) = 1
           /\ RankIn(q.content, q.merged[j].id) = 2
           /\ RankIn(q.summary, q.merged[j].id) = 0

\* ---------------------------------------------------------------- C16

\* the position at which id is first inserted: rows of the content list in list
\* order, then the rows found only in the summary list
InsertionIndex(id) == RankIn(q.content \o q.summary, id)

\* C16: the rows rrf_merge returns are in descending order of fused score, and
\* rows with equal fused score are in insertion order.
C16_SortedTiesByInsertion ==
    Merged =>
        \A i, j \in DOMAIN q.merged :
            i < j =>
                /\ q.merged[i].score >= q.merged[j].score
                /\ q.merged[i].score = q.merged[j].score =>
                       InsertionIndex(q.merged[i].id) < InsertionIndex(q.merged[j].id)

\* ---------------------------------------------------------------- C17

\* the ids of the union of both result lists
UnionIds == {r.id : r \in Range(q.content) \cup Range(q.summary)}

\* C17: rrf_merge returns at most `limit` rows with pairwise distinct ids; they
\* are rows of the union of both lists with the highest fused scores, and the
\* score field of each holds its fused score.
C17_TopLimitDistinct ==
    Merged =>
        LET ids == {q.merged[i].id : i \in DOMAIN q.merged} IN
        /\ Len(q.merged) <= q.limit
        /\ Len(q.merged) = Min(q.limit, Cardinality(UnionIds))
        /\ \A i, j \in DOMAIN q.merged : q.merged[i].id = q.merged[j].id => i = j
        /\ ids \subseteq UnionIds
        /\ \A i \in DOMAIN q.merged : q.merged[i].score = FusedOf(q.merged[i].id)
        /\ \A id \in UnionIds \ ids :
               \A i \in DOMAIN q.merged : FusedOf(id) <= q.merged[i].score

\* a row of both lists was returned once, and the limit cut the union
C17_Witness ==
    /\ Merged
    /\ q.limit = 2 /\ Len(q.merged) = 2
    /\ Cardinality(UnionIds) > 2
    /\ \E i \in DOMAIN q.merged :
           /\ RankIn(q.content, q.merged[i].id) > 0
           /\ RankIn(q.summary, q.merged[i].id) > 0

\* ---------------------------------------------------------------- C18

\* the ids and fused scores of a result, in order
IdsAndScores(results) == [i \in DOMAIN results |-> <<results[i].id, results[i].score>>]

\* C18: for the same two result lists every evaluation of rrf_merge, with the
\* lists in either argument order, returns the same sequence of ids with the
\* same fused scores.
C18_OrderIndependent ==
    Merged =>
        \A m \in rrf_merge(q.content, q.summary, q.limit)
                   \cup rrf_merge(q.summary, q.content, q.limit) :
            IdsAndScores(m) = IdsAndScores(q.merged)

\* ---------------------------------------------------------------- C19

\* the result list of an answered request before the min_score filter
Unfiltered == IF q.kind = "find" THEN q.content ELSE q.merged

\* C19: the response of /find and /query holds exactly the rows of the
\* limit-truncated result list whose score is not strictly below min_score, in
\* unchanged order; without min_score it holds every row.
C19_MinScoreFilter ==
    (q.pc = "done" /\ q.status = 200) =>
        LET keep == {i \in DOMAIN Unfiltered :
                        \A t \in q.min_score : ~(Unfiltered[i].score < t)}
        IN /\ Len(Unfiltered) <= q.limit
           /\ q.body = SelectIdx(Unfiltered, keep)
           /\ q.min_score = {} => q.body = Unfiltered

\* a response kept a row whose score equals min_score and dropped a row below it
C19_Witness ==
    /\ q.pc = "done" /\ q.status = 200
    /\ \E t \in q.min_score :
           /\ \E i \in DOMAIN q.body : q.body[i].score = t
           /\ \E i \in DOMAIN Unfiltered : Unfiltered[i].score < t
    /\ Len(q.body) < Len(Unfiltered)
    /\ Len(q.body) >= 2

\* ---------------------------------------------------------------- C20

\* C20: the watcher never has two refreshes in flight: at most one refresh it
\* started has not returned, and one is in flight only while the loop awaits it.
C20_OneRefreshInFlight ==
    /\ w.inflight <= 1
    /\ w.inflight = 1 <=> w.pc = "refresh"
    /\ w.started <= w.sent
    /\ \A r \in Runners : Active(r) => r = WatcherRun /\ w.pc = "refresh"

\* events arrived while the second refresh of the loop was running
C20_Witness ==
    /\ w.inflight = 1
    /\ w.started = 2
    /\ w.queue >= 1
    /\ Walked(WatcherRun)

\* ---------------------------------------------------------------- C21

\* a step of the consumer loop taken while it is in the debounce sleep
DebounceStep ==
    w.pc = "sleep" =>
        IF w'.pc = "sleep"
        THEN w'.started = w.started /\ w'.queue >= w.queue
        ELSE /\ w'.pc = "refresh"
             /\ w'.queue = 0
             /\ w'.started = w.started + 1
             /\ w'.served = w.sent
             /\ run'[WatcherRun].pc = "open"

\* C21: the events enqueued between the first event of a burst and the end of
\* the debounce window start no refresh of their own: they stay queued during
\* the sleep, are all drained when it ends, and one refresh serves them all.
C21_Debounce == [][DebounceStep]_vars

\* a burst of three events has been served by the only refresh started so far
C21_Witness ==
    /\ w.pc = "refresh"
    /\ w.started = 1
    /\ run[WatcherRun].pc = "open"
    /\ w.sent >= 3
    /\ w.served = w.sent
    /\ w.queue = 0

\* ---------------------------------------------------------------- C22

\* one request at a time: the worker holds at most one request it has not
\* answered, and the queue holds at most Capacity
ActorShape ==
    /\ actor.answered <= actor.taken
    /\ actor.taken - actor.answered <= 1
    /\ actor.taken - actor.answered = 1 <=> actor.pc \in {"embed", "panicked"}
    /\ actor.errors <= actor.answered
    /\ Queued >= 0
    /\ Queued <= Capacity

\* the requests without a message on their reply channel are those the worker
\* left behind when its thread ended: the queued ones when the load failed,
\* the request in embed_query and the queued ones when embed_query unwound
ClosedOnlyByWorkerEnd ==
    /\ actor.pc \notin {"exited", "panicked"} => actor.dropped = 0
    /\ actor.pc = "exited" => actor.taken = 0 /\ actor.dropped = actor.accepted
    /\ actor.pc = "panicked" => actor.dropped = actor.accepted - actor.answered

\* C22: every accepted request gets exactly one message on its reply channel
\* (no accepted request has its reply channel closed without a message),
\* requests are served one at a time, and the queue never holds more than
\* Capacity requests.
C22_OneReplyEach ==
    /\ ActorShape
    /\ actor.dropped = 0

\* ---------------------------------------------------------------- C23

\* the worker thread of a loaded model ended only after the last sender was
\* dropped and every accepted request was answered
StoppedWhenDone ==
    actor.pc \in {"stopped", "panicked"} =>
        /\ ~actor.senders
        /\ Queued = 0
        /\ actor.dropped = 0
        /\ actor.answered = actor.accepted

\* the loop is left through recv() = None only: no sender, nothing queued
LoopLeftWhenClosed ==
    actor.pc = "stopped" =>
        /\ ~actor.senders
        /\ actor.dropped = 0
        /\ actor.answered = actor.accepted

\* C23: once every sender handle is dropped the actor answers the requests
\* still queued and then its worker thread terminates; while a sender handle is
\* alive and the model loaded, the worker thread does not end.
C23_ExitsWhenSendersDropped ==
    /\ []StoppedWhenDone
    /\ (~actor.senders /\ actor.pc \in {"recv", "embed"}) ~> (actor.pc = "stopped")

\* ---------------------------------------------------------------- C24

\* after a failed load every request made so far has been answered with
\* InternalServerError and none is waiting
FailedLoadAnswersAll ==
    actor.pc = "exited" =>
        /\ Waiting = 0
        /\ InternalServerErrors = Arrived

\* after embed_query unwound no request is waiting: every request that was not
\* answered before has been answered with InternalServerError
UnwoundAnswersAll ==
    actor.pc = "panicked" =>
        /\ Waiting = 0
        /\ InternalServerErrors = Arrived - (actor.answered - actor.errors)

\* C24: a request the actor cannot serve is answered with InternalServerError,
\* and no request waits forever: the n-th request to call send is eventually
\* resolved, whether the model loads or not and whether embed_query returns
\* or unwinds.
C24_NoRequestWaitsForever ==
    /\ []FailedLoadAnswersAll
    /\ []UnwoundAnswersAll
    /\ [](InternalServerErrors <= Resolved)
    /\ \A n \in 1..MaxRequests : (Arrived >= n) ~> (Resolved >= n)

\* the load failed with requests queued and a send arrived afterwards
C24_Witness ==
    /\ actor.pc = "exited"
    /\ actor.dropped >= 2
    /\ actor.rejected >= 1

\* ---------------------------------------------------------------- C25

\* the chunks of the same call when nothing is oversize
Unsplit == parse_file(call.args[1], CallSource, SourceLines(call.args[2]) + 1)

\* the chunks of the call that come from the node of `parent`
WindowsOf(parent) ==
    SelectSeq(call.result, LAMBDA c : c.symbol = parent.symbol)

\* the windows of `parent` for window size m: as many as needed, each starting
\* m lines after the one before, the last one ending where the parent ends
IsWindowed(parent, m) ==
    LET n == parent.end_line - parent.start_line + 1
        count == (n + m - 1) \div m
        ws == WindowsOf(parent)
    IN /\ Len(ws) = count
       /\ \A k \in 1..count :
             /\ ws[k].start_line = parent.start_line + (k - 1) * m
             /\ ws[k].end_line = Min(parent.start_line + k * m - 1, parent.end_line)
             /\ ws[k].symbol = parent.symbol
             /\ ws[k].language = parent.language

\* the chunks that come from the node of `parent` have its summary
Inherits(parent) ==
    \A k \in DOMAIN WindowsOf(parent) :
        chunk_summary(WindowsOf(parent)[k]) = chunk_summary(parent)

\* every chunk parse_file returns spans at most max_chunk_lines lines, and a
\* longer node is replaced by contiguous, non-overlapping windows in file
\* order that cover its lines and carry its symbol and language
WindowsCover ==
    (call.fn = "parse_file" /\ call.returned) =>
        LET m == call.args[3]
            chunks == call.result
        IN /\ \A k \in DOMAIN chunks :
                 /\ chunks[k].start_line <= chunks[k].end_line
                 /\ chunks[k].end_line - chunks[k].start_line + 1 <= m
           /\ \A k \in DOMAIN chunks :
                 k > 1 => chunks[k - 1].end_line < chunks[k].start_line
           /\ \A k \in DOMAIN Unsplit : IsWindowed(Unsplit[k], m)
           /\ \A k \in DOMAIN chunks :
                 \E j \in DOMAIN Unsplit : chunks[k].symbol = Unsplit[j].symbol

\* C25: every chunk parse_file returns spans at most max_chunk_lines lines, and
\* a longer node is replaced by contiguous, non-overlapping windows in file
\* order that cover its lines and carry its symbol, language and summary.
C25_WindowsWithinLimit ==
    /\ WindowsCover
    /\ (call.fn = "parse_file" /\ call.returned) =>
           \A k \in DOMAIN Unsplit : Inherits(Unsplit[k])

\* a documented function was split into at least three windows, the last one
\* shorter than the others, next to a function that was not split
SplitDocumented ==
    /\ call.fn = "parse_file" /\ call.returned
    /\ \E j, k \in DOMAIN Unsplit :
          /\ Len(WindowsOf(Unsplit[j])) >= 3
          /\ chunk_summary(Unsplit[j]) # None
          /\ Len(WindowsOf(Unsplit[k])) = 1
    /\ \E k \in DOMAIN call.result :
          call.result[k].end_line = call.result[k].start_line /\ call.args[3] = 2

\* ---------------------------------------------------------------- C26

\* the languages with a dedicated doc-comment marker
MarkerLanguages ==
    {"rust", "java", "javascript", "typescript", "tsx", "scala", "csharp", "fsharp",
     "haskell"}

\* node s is a comment in the doc-comment syntax of the language
Documentation(s, lang) ==
    CASE lang \in {"rust", "csharp", "fsharp"} -> s.marker \in {"///", "/**"}
      [] lang = "haskell" -> s.kind = "haddock" \/ s.marker = "{-|"
      [] OTHER -> s.marker = "/**"

\* node s is a comment that is not documentation
PlainComment(s, lang) == s.marker # "" /\ ~Documentation(s, lang)

\* the named nodes among `nodes`
Named(nodes) == SelectSeq(nodes, LAMBDA s : s.named)

\* the named siblings before the declaration of the call, type signatures of
\* Haskell left out
Preceding ==
    LET sibs == call.args[2]
    IN SelectSeq(Named(SubSeq(sibs, 1, Len(sibs) - 1)),
                 LAMBDA s : ~(call.args[1] = "haskell" /\ s.kind = "signature"))

\* what a summary shows of the doc comment s: the text between its
\* delimiters, and all of its text when it is a Haskell {-| comment
DocText(s) == IF s.marker = "{-|" THEN s.text ELSE s.body

\* the texts of the doc comments that end `nodes`, in source order
DocBlock(nodes, lang) ==
    LET n == Len(nodes)
        k == CHOOSE k \in 0..n :
                 /\ \A j \in (n - k + 1)..n : Documentation(nodes[j], lang)
                 /\ k < n => ~Documentation(nodes[n - k], lang)
    IN [j \in 1..k |-> DocText(nodes[n - k + j])]

\* the lines of a summary made of `texts`: those from the first text that is
\* not empty to the last one
SummaryLines(texts) ==
    LET RECURSIVE DropEmpty(_)
        DropEmpty(ts) == IF ts # <<>> /\ Head(ts) = "" THEN DropEmpty(Tail(ts)) ELSE ts
        Reverse(ts) == [i \in 1..Len(ts) |-> ts[Len(ts) + 1 - i]]
    IN Reverse(DropEmpty(Reverse(DropEmpty(texts))))

\* C26: in a language with a doc-comment marker the summary is made of the doc
\* comments that directly precede the declaration, in source order, and of
\* nothing else (it is absent when they hold no text): a plain comment directly
\* before the declaration leaves it without summary, whatever lies above that
\* comment.
C26_PlainCommentBlocks ==
    (call.fn = "extract_comment" /\ call.returned /\ call.args[1] \in MarkerLanguages) =>
        LET lang == call.args[1]
            above == call.args[3]
            own == DocBlock(Preceding, lang)
            docs == IF own = <<>> /\ Preceding = <<>> /\ above.kind = "declarations"
                    THEN DocBlock(Named(above.prev), lang)
                    ELSE own
        IN /\ call.result = (IF SummaryLines(docs) = <<>> THEN None
                              ELSE Some(JoinLines(SummaryLines(docs))))
           /\ (Preceding # <<>> /\ PlainComment(Preceding[Len(Preceding)], lang))
                 => call.result = None

\* a Haskell function after a Haddock comment, a plain comment and a type
\* signature got no summary
C26_Witness ==
    /\ call.fn = "extract_comment" /\ call.returned
    /\ call.args[1] = "haskell"
    /\ Len(call.args[2]) = 4
    /\ call.args[2][1].kind = "haddock"
    /\ call.args[2][2].kind = "comment"
    /\ call.args[2][3].kind = "signature"
    /\ call.args[3].kind = "declarations"
    /\ Len(call.args[3].prev) = 1 /\ call.args[3].prev[1].kind = "haddock"
    /\ call.result = None

\* ---------------------------------------------------------------- C27

\* glob g matches the path: a text that is no glob matches nothing
GlobMatches(g, path) == g.valid /\ path \in g.matches

\* a directory the walk does not enter
PrunedDir(dir, exclude) ==
    \/ dir.first = "."
    \/ \E g \in exclude : GlobMatches(g, dir.rel \o "/x")

\* C27: collect_files returns exactly the files in no pruned directory whose
\* relative path no exclude glob matches and that some include glob matches
\* when the include list is non-empty, or whose extension is a default
\* extension when the include list is empty.
C27_CollectFilesExact ==
    (call.fn = "collect_files" /\ call.returned) =>
        LET root == call.args[1]
            include == call.args[2]
            exclude == call.args[3]
            default_exts == call.args[4]
        IN call.result =
             {f.rel : f \in {g \in WalkTree :
                 /\ ~PrunedDir(root, exclude)
                 /\ \A i \in DOMAIN g.dirs : ~PrunedDir(g.dirs[i], exclude)
                 /\ ~\E x \in exclude : GlobMatches(x, g.rel)
                 /\ \/ include # {} /\ \E x \in include : GlobMatches(x, g.rel)
                    \/ include = {} /\ g.ext \in default_exts}}

\* ---------------------------------------------------------------- C28

\* both runs have returned Ok
BothDone == \A r \in Runners : run[r].pc = "done"

\* no record is in the table twice
StoredOnce == \A row \in Rows(store) : store.rows[row] = 1

\* run r is in the steps of file f: get_file_hash has returned and insert has
\* not
InFile(r, f) == run[r].pc \in {"delete", "process", "insert"} /\ run[r].path = f

\* the steps of two runs for one file do not interleave
Serialized == \A f \in Files : ~(InFile(1, f) /\ InFile(2, f))

\* C28: the get_file_hash, delete_file and insert steps of two concurrent
\* index or refresh runs for one file are serialized, and after both runs
\* have finished no record is stored twice and all rows of one file_path
\* carry one file_hash.
C28_ConcurrentRunsSerialized ==
    /\ Serialized
    /\ BothDone =>
           /\ StoredOnce
           /\ \A r1, r2 \in Rows(store) :
                  r1.file_path = r2.file_path => r1.file_hash = r2.file_hash

\* ---------------------------------------------------------------- C29

\* the loop has left `loop` only by recv() returning None: the channel was
\* closed and empty
StoppedOnlyWhenClosed == w.pc = "stopped" => w.closed /\ w.queue = 0

\* C29: every event the callback forwards is eventually followed by a refresh
\* that starts after the event was enqueued, also when the event arrives while
\* a refresh is running and when the refresh before returned Err; and the
\* consumer loop stops only when the event channel is closed.
C29_NoEventLost ==
    /\ []StoppedOnlyWhenClosed
    /\ \A n \in 1..MaxEvents : (w.sent >= n) ~> (w.served >= n)

\* an event arrived while the first refresh was running, that refresh returned
\* Err, and the second refresh has started after the event
C29_Witness ==
    /\ w.pc = "refresh"
    /\ w.started = 2
    /\ w.warnings = 1
    /\ run[WatcherRun].prev.pc = "failed"
    /\ w.during >= 1
    /\ w.served = w.sent

\* ---------------------------------------------------------------- C30

\* ceil(n / m)
CeilDiv(n, m) == (n + m - 1) \div m

\* a returned call with n >= 1 lines and max_lines m >= 1 has ceil(n / m) chunks
WindowCount ==
    (call.returned /\ call.args[1] >= 1 /\ call.args[3] >= 1) =>
        Len(call.result) = CeilDiv(call.args[1], call.args[3])

\* C30: for every content and every max_chunk_lines, 0 included, the loop of
\* split_by_lines terminates and the call returns a finite chunk list, which
\* for n >= 1 lines and window size m >= 1 has exactly ceil(n / m) windows.
C30_SplitTerminates == <>(call.returned) /\ []WindowCount


=============================================================================
